---- MODULE Spec2Model ----
(***************************************************************************)
(* LocalInsight: the material store (documents, summaries, flashcards,     *)
(* quiz questions, learning history), its tenant guard and the flashcard   *)
(* review scheduler, as implemented in src/modules/db.py,                  *)
(* src/modules/repo_documents.py and the legacy src/modules/database.py.   *)
(*                                                                         *)
(* Time is counted in whole days: the code adds whole days to              *)
(* datetime('now') and compares timestamps of one fixed format, whose      *)
(* string order is the chronological order.                                *)
(***************************************************************************)
EXTENDS Integers, Sequences, FiniteSets, TLC

\* ------------------------------------------------------------------ bounds
MaxRows == 1        \* rows ever inserted into each table (Spec, SpecLegacy)
MaxDocs == 2        \* documents ever created (SpecDocs)
MaxCards == 2       \* flashcards ever created (SpecReview, SpecSched)
MaxHistory == 2     \* learning-history events ever written (SpecReview)
MaxReviews == 5     \* learning-history events ever written (SpecSched)
MaxCorrect == 10    \* correct events of the tenant whose statistics are read (SpecStats)
MaxIncorrect == 5    \* incorrect events of that tenant (SpecStats)
MaxOther == 2       \* correct, and incorrect, events of the other tenant (SpecStats)

\* The registered users (rows of the users table); every owned table has
\* FOREIGN KEY (user_id) REFERENCES users(id).
Users == {1, 2}

\* The option buttons of one question that are pressed.
MaxOptions == 2

\* The items of one list handed to a bulk insert, and the rows a table
\* holds after the bulk inserts.
MaxItems == 2
MaxStored == 3

\* The reviews two concurrent sessions record.
MaxRace == 3

\* The documents study material is generated for.
MaxMaterial == 2

\* The questions of one generated list, and the answers given to them.
MaxQuestions == 2
MaxAnswers == 3

\* The instants at which the clock is observed, in days.
TimePoints == {0, 1, 30}

\* SQL NULL / Python None for ids and timestamps (ids start at 1, time at 0).
NULL == -1

VARIABLES
    documents,        \* rows of table documents
    summaries,        \* rows of table summaries
    flashcards,       \* rows of table flashcards
    quiz_questions,   \* rows of table quiz_questions
    learning_history, \* rows of table learning_history
    sqlite_sequence,  \* the AUTOINCREMENT counter of each table
    now,              \* the storage clock, datetime('now')
    last,             \* the most recent call: operation, arguments, outcome
    conn,             \* a call in progress: its position and open transaction
    peer,             \* a call in progress in a second session of the tenant
    session_state,    \* st.session_state of one browser session
    schema            \* which init_db created the material tables

tables == <<documents, summaries, flashcards, quiz_questions, learning_history,
            sqlite_sequence>>
vars == <<documents, summaries, flashcards, quiz_questions, learning_history,
          sqlite_sequence, now, last, conn, peer, session_state, schema>>

\* What the calls of the material store that run in one step leave alone.
rest == <<conn, peer, session_state, schema>>

\* The material tables are created by db.init_db, with ON DELETE CASCADE
\* on document_id, unless they exist already: tables created earlier by
\* database.init_db keep their definition (document_id REFERENCES
\* documents(id) with no action, no checksum column, learning_history
\* referencing flashcards and quiz_questions) and only gain user_id.
Schemas == {"multi_tenant", "legacy_migrated"}

\* ------------------------------------------------------- the tenant guard
\* The values a caller may pass as user_id: nothing, an int, a str, a bool
\* (val is the number the value stands for once bound into SQL).
UserIdInputs ==
    {[kind |-> "none", val |-> 0], [kind |-> "str", val |-> 1],
     [kind |-> "bool", val |-> 1]}
    \cup {[kind |-> "int", val |-> v] : v \in {-1, 0} \cup Users}

\* isinstance(user_id, int): bool is a subclass of int.
isinstance_int(u) == u.kind \in {"int", "bool"}

\* TRUE when the decorator lets the call through, FALSE when it raises.
require_user_id(u) ==
    IF u.kind = "none" THEN FALSE
    ELSE IF ~isinstance_int(u) \/ u.val <= 0 THEN FALSE
    ELSE TRUE

NoArg ==
    [id |-> NULL, doc |-> NULL, ok |-> FALSE, n |-> 0, rowcount |-> 0, printed |-> "",
     generated |-> [summary |-> "", flashcards |-> <<>>, questions |-> <<>>]]

\* What a call leaves in `last`. calls counts the SQL statements executed.
Outcome(op, u, arg, ret, calls) ==
    [op |-> op, uid |-> u, arg |-> arg, ret |-> ret, calls |-> calls]

\* The wrapper raised ValueError: func was never entered. (The operation's
\* name, which only the message carries, is not kept.)
Rejected(u) ==
    /\ last' = Outcome("rejected", u, NoArg, "ValueError", 0)
    /\ UNCHANGED <<tables, now, rest>>

Bump(table, n) == [sqlite_sequence EXCEPT ![table] = @ + n]

DocExists(id) == \E d \in documents : d.id = id

\* A NULL foreign key always passes; a present one must name a parent row.
fk_document_ok(document_id) == document_id = NULL \/ DocExists(document_id)


\* ------------------------------------------------------------- documents
create_document(u) ==
    IF ~require_user_id(u) THEN Rejected(u)
    ELSE IF schema = "legacy_migrated"
    THEN \* table documents has no column named checksum
         /\ last' = Outcome("create_document", u, NoArg, "OperationalError", 1)
         /\ UNCHANGED <<tables, now, rest>>
    ELSE /\ LET id == sqlite_sequence.documents + 1 IN
            /\ documents' = documents \cup
                   {[id |-> id, user_id |-> u.val, is_processed |-> 0]}
            /\ sqlite_sequence' = Bump("documents", 1)
            /\ last' = Outcome("create_document", u, [NoArg EXCEPT !.id = id], "ok", 1)
         /\ UNCHANGED <<summaries, flashcards, quiz_questions, learning_history, now, rest>>

\* Python None, as the result of a fetch of one row.
None == [id |-> NULL, user_id |-> NULL, is_processed |-> NULL]

\* Mutant: the lookup filters by id alone.
get_document_by_id_only(document_id, user_id) ==
    LET rows == {d \in documents : d.id = document_id} IN
    IF rows = {} THEN None ELSE CHOOSE d \in rows : TRUE

\* SELECT * FROM documents WHERE id = ? AND user_id = ?  (fetch one or None)
get_document(document_id, user_id) ==
    LET rows == {d \in documents : d.id = document_id /\ d.user_id = user_id} IN
    IF rows = {} THEN None ELSE CHOOSE d \in rows : TRUE

\* SELECT ... FROM documents WHERE user_id = ?
get_documents(user_id) == {d \in documents : d.user_id = user_id}

\* A deletion whose cascade would also reach the learning history of the
\* removed cards and questions (learning_history declares no such key).
delete_document_cascading_history(document_id, u) ==
    LET hit == {d \in documents : d.id = document_id /\ d.user_id = u.val}
        gone(rows) == {x \in rows : \E d \in hit : x.document_id = d.id} IN
    /\ require_user_id(u)
    /\ documents' = documents \ hit
    /\ summaries' = summaries \ gone(summaries)
    /\ flashcards' = flashcards \ gone(flashcards)
    /\ quiz_questions' = quiz_questions \ gone(quiz_questions)
    /\ learning_history' =
           {h \in learning_history :
               /\ \A f \in gone(flashcards) : h.flashcard_id # f.id
               /\ \A q \in gone(quiz_questions) : h.quiz_question_id # q.id}
    /\ last' = Outcome("delete_document", u, [NoArg EXCEPT !.id = document_id],
                       IF hit # {} THEN "true" ELSE "false", 1)
    /\ UNCHANGED <<sqlite_sequence, now, rest>>

\* DELETE FROM documents WHERE id = ? AND user_id = ?, with the ON DELETE
\* CASCADE of summaries, flashcards and quiz_questions (foreign_keys = ON).
delete_document(document_id, u) ==
    IF ~require_user_id(u) THEN Rejected(u)
    ELSE LET hit == {d \in documents : d.id = document_id /\ d.user_id = u.val} IN
         IF /\ schema = "legacy_migrated"
            /\ \E d \in hit : \E x \in summaries \cup flashcards \cup quiz_questions :
                  x.document_id = d.id
         THEN \* FOREIGN KEY constraint failed: a row that references the
              \* document holds it
              /\ last' = Outcome("delete_document", u, [NoArg EXCEPT !.id = document_id],
                                 "IntegrityError", 1)
              /\ UNCHANGED <<tables, now, rest>>
         ELSE /\ documents' = documents \ hit
              /\ summaries' = {s \in summaries : \A d \in hit : s.document_id # d.id}
              /\ flashcards' = {f \in flashcards : \A d \in hit : f.document_id # d.id}
              /\ quiz_questions' =
                     {q \in quiz_questions : \A d \in hit : q.document_id # d.id}
              /\ last' = Outcome("delete_document", u, [NoArg EXCEPT !.id = document_id],
                                 IF hit # {} THEN "true" ELSE "false", 1)
              /\ UNCHANGED <<learning_history, sqlite_sequence, now, rest>>

\* UPDATE documents SET is_processed = 1 WHERE id = ? AND user_id = ?
mark_document_processed(document_id, u) ==
    IF ~require_user_id(u)
    THEN Rejected(u)
    ELSE LET hit == {d \in documents : d.id = document_id /\ d.user_id = u.val} IN
         /\ documents' = (documents \ hit) \cup {[d EXCEPT !.is_processed = 1] : d \in hit}
         /\ last' = Outcome("mark_document_processed", u, [NoArg EXCEPT !.id = document_id],
                            IF hit # {} THEN "true" ELSE "false", 1)
         /\ UNCHANGED <<summaries, flashcards, quiz_questions, learning_history,
                        sqlite_sequence, now, rest>>

\* ------------------------------------------------------------- summaries
\* INSERT INTO summaries (user_id, document_id, summary_text); the row is
\* refused (sqlite3.IntegrityError) when document_id names no document.
create_summary(document_id, u) ==
    IF ~require_user_id(u) THEN Rejected(u)
    ELSE LET arg == [NoArg EXCEPT !.doc = document_id] IN
         IF ~fk_document_ok(document_id)
         THEN /\ last' = Outcome("create_summary", u, arg, "IntegrityError", 1)
              /\ UNCHANGED <<tables, now, rest>>
         ELSE /\ LET id == sqlite_sequence.summaries + 1 IN
                 /\ summaries' = summaries \cup
                        {[id |-> id, user_id |-> u.val, document_id |-> document_id]}
                 /\ sqlite_sequence' = Bump("summaries", 1)
                 /\ last' = Outcome("create_summary", u, [arg EXCEPT !.id = id], "ok", 1)
              /\ UNCHANGED <<documents, flashcards, quiz_questions, learning_history, now, rest>>

\* SELECT s.id, d.filename ... FROM summaries s JOIN documents d
\*   ON s.document_id = d.id WHERE s.user_id = ? [AND s.document_id = ?]
\* (`if document_id:` takes the unfiltered branch for None). A row carries
\* the joined document, whose filename it shows.
get_summaries(user_id, document_id) ==
    {[id |-> s.id, document |-> d.id] :
        <<s, d>> \in {p \in summaries \X documents :
                        /\ p[1].document_id = p[2].id
                        /\ p[1].user_id = user_id
                        /\ (document_id # NULL => p[1].document_id = document_id)}}

\* ------------------------------------------------------------ bulk insert
\* The values of an item's key besides a text: the key is not there, or it
\* holds None (a JSON null of the generated list).
Missing == "<missing>"

PyNone == "<None>"

\* The index of the first row of params_list that the table rejects, or
\* Len(rows) + 1 when it rejects none.
FirstRejected(rows, rejected) ==
    IF \E i \in DOMAIN rows : i \in rejected
    THEN CHOOSE i \in DOMAIN rows : i \in rejected /\ \A j \in 1 .. i - 1 : j \notin rejected
    ELSE Len(rows) + 1

\* Mutant: every statement of executemany is committed on its own, so the
\* rows before the rejected one stay.
execute_many_autocommit(table, rows, rejected) ==
    LET k == FirstRejected(rows, rejected)
        in_transaction == table \cup {rows[i] : i \in 1 .. k - 1}
    IN IF k <= Len(rows)
       THEN [table |-> in_transaction, rowcount |-> k - 1, ret |-> "IntegrityError"]
       ELSE [table |-> in_transaction, rowcount |-> Len(rows), ret |-> "ok"]

\* db.execute_many: conn.executemany runs the INSERT once per row of
\* params_list inside one transaction; at the first row the table rejects
\* it raises, conn.commit() is not reached and get_db's conn.close() drops
\* the rows inserted so far. Otherwise commit, and cursor.rowcount is the
\* number of rows inserted.
execute_many(table, rows, rejected) ==
    LET k == FirstRejected(rows, rejected)
        in_transaction == table \cup {rows[i] : i \in 1 .. k - 1}
    IN IF k <= Len(rows)
       THEN [table |-> table, rowcount |-> 0, ret |-> "IntegrityError"]
       ELSE [table |-> in_transaction, rowcount |-> Len(rows), ret |-> "ok"]

\* ------------------------------------------------------------ flashcards
\* The items of a flashcards_list, by their keys question and answer.
GoodCard == [question |-> "q", answer |-> "a"]

CardWithoutAnswer == [question |-> "q", answer |-> Missing]

CardWithNullQuestion == [question |-> PyNone, answer |-> "a"]

Cards(n) == [i \in 1 .. n |-> GoodCard]

NewCard(id, user_id, document_id) ==
    [id |-> id, user_id |-> user_id, document_id |-> document_id,
     times_reviewed |-> 0, times_correct |-> 0,
     last_reviewed |-> NULL, next_review |-> NULL]

\* params_list = [(user_id, document_id, card['question'], card['answer'],
\* ...) for card in flashcards_list] raises KeyError at an item without one
\* of the keys, before any statement.
CardKeyError(flashcards_list) ==
    \E i \in DOMAIN flashcards_list :
        flashcards_list[i].question = Missing \/ flashcards_list[i].answer = Missing

\* The rows of params_list the table rejects: question and answer are
\* TEXT NOT NULL, and document_id REFERENCES documents(id).
CardsRejected(flashcards_list, document_id) ==
    {i \in DOMAIN flashcards_list :
        \/ flashcards_list[i].question = PyNone
        \/ flashcards_list[i].answer = PyNone
        \/ ~fk_document_ok(document_id)}

\* INSERT INTO flashcards (user_id, document_id, question, answer, difficulty)
\* once per item of flashcards_list, in one transaction (create_flashcard:
\* one item).
InsertFlashcards(op, flashcards_list, document_id, u) ==
    LET n == Len(flashcards_list)
        arg == [NoArg EXCEPT !.doc = document_id, !.n = n]
        first == sqlite_sequence.flashcards + 1
        rows == [i \in 1 .. n |-> NewCard(first + i - 1, u.val, document_id)]
        done == execute_many(flashcards, rows, CardsRejected(flashcards_list, document_id))
    IN IF CardKeyError(flashcards_list)
       THEN /\ last' = Outcome(op, u, arg, "KeyError", 0)
            /\ UNCHANGED <<tables, now, rest>>
       ELSE /\ flashcards' = done.table
            /\ sqlite_sequence' = Bump("flashcards", done.rowcount)
            /\ last' = Outcome(op, u,
                               [arg EXCEPT !.id = IF done.ret = "ok" THEN first ELSE NULL,
                                           !.rowcount = done.rowcount],
                               done.ret, 1)
            /\ UNCHANGED <<documents, summaries, quiz_questions, learning_history, now, rest>>

create_flashcard(document_id, u) ==
    IF ~require_user_id(u) THEN Rejected(u)
    ELSE InsertFlashcards("create_flashcard", Cards(1), document_id, u)

create_flashcards_bulk(flashcards_list, document_id, u) ==
    IF ~require_user_id(u) THEN Rejected(u)
    ELSE InsertFlashcards("create_flashcards_bulk", flashcards_list, document_id, u)

\* SELECT f.id, d.filename, ... FROM flashcards f LEFT JOIN documents d
\*   ON f.document_id = d.id WHERE f.user_id = ? [AND f.document_id = ?]
JoinedDocument(document_id) == IF DocExists(document_id) THEN document_id ELSE NULL

get_flashcards(user_id, document_id) ==
    {[id |-> f.id, document |-> JoinedDocument(f.document_id),
      times_reviewed |-> f.times_reviewed, times_correct |-> f.times_correct,
      next_review |-> f.next_review] :
        f \in {c \in flashcards :
                 /\ c.user_id = user_id
                 /\ (document_id # NULL => c.document_id = document_id)}}

\* ------------------------------------------------------ review scheduler
\* success_rate >= tenths / 10, where success_rate is
\* times_correct / times_reviewed if times_reviewed > 0 else 0. The float
\* quotient and the float literal compare as the exact fractions do for
\* every count below 2^50, so the comparison is done on integers.
\* Mutant: the tier boundaries compare with > instead of >=.
success_rate_above(times_correct, times_reviewed, tenths) ==
    IF times_reviewed > 0
    THEN 10 * times_correct > tenths * times_reviewed
    ELSE 0 > tenths

success_rate_at_least(times_correct, times_reviewed, tenths) ==
    IF times_reviewed > 0
    THEN 10 * times_correct >= tenths * times_reviewed
    ELSE 0 >= tenths

\* Mutant: the tiers are applied whatever the outcome is.
review_days_ignoring_outcome(is_correct, times_reviewed, times_correct) ==
    IF success_rate_at_least(times_correct, times_reviewed, 8) THEN 30
    ELSE IF success_rate_at_least(times_correct, times_reviewed, 6) THEN 14
    ELSE IF success_rate_at_least(times_correct, times_reviewed, 4) THEN 7
    ELSE 3

\* Mutant: the days of the two middle tiers are exchanged.
review_days_tiers_swapped(is_correct, times_reviewed, times_correct) ==
    IF is_correct
    THEN IF success_rate_at_least(times_correct, times_reviewed, 8) THEN 30
         ELSE IF success_rate_at_least(times_correct, times_reviewed, 6) THEN 7
         ELSE IF success_rate_at_least(times_correct, times_reviewed, 4) THEN 14
         ELSE 3
    ELSE 1

\* The `days` chosen from the outcome and the counts after this review.
review_days(is_correct, times_reviewed, times_correct) ==
    IF is_correct
    THEN IF success_rate_at_least(times_correct, times_reviewed, 8) THEN 30
         ELSE IF success_rate_at_least(times_correct, times_reviewed, 6) THEN 14
         ELSE IF success_rate_at_least(times_correct, times_reviewed, 4) THEN 7
         ELSE 3
    ELSE 1

result_text(is_correct) == IF is_correct THEN "correct" ELSE "incorrect"

\* One row of learning_history; review_date DEFAULT CURRENT_TIMESTAMP.
HistoryEvent(id, user_id, flashcard_id, quiz_question_id, is_correct) ==
    [id |-> id, user_id |-> user_id, flashcard_id |-> flashcard_id,
     quiz_question_id |-> quiz_question_id, result |-> result_text(is_correct),
     review_date |-> now]

\* Mutant: times_correct grows on every review.
reviewed_card_always_correct(f, is_correct) ==
    LET times_reviewed == f.times_reviewed + 1
        times_correct == f.times_correct + 1
        days == review_days(is_correct, times_reviewed, times_correct)
    IN [f EXCEPT !.times_reviewed = times_reviewed,
                 !.times_correct = times_correct,
                 !.last_reviewed = now,
                 !.next_review = now + days]

\* Mutant: the days are chosen from the counts before this review.
reviewed_card_rate_before_review(f, is_correct) ==
    LET times_reviewed == f.times_reviewed + 1
        times_correct == f.times_correct + (IF is_correct THEN 1 ELSE 0)
        days == review_days(is_correct, f.times_reviewed, f.times_correct)
    IN [f EXCEPT !.times_reviewed = times_reviewed,
                 !.times_correct = times_correct,
                 !.last_reviewed = now,
                 !.next_review = now + days]

\* The card as the UPDATE leaves it: both datetime('now') of the statement
\* are the same instant.
reviewed_card(f, is_correct) ==
    LET times_reviewed == f.times_reviewed + 1
        times_correct == f.times_correct + (IF is_correct THEN 1 ELSE 0)
        days == review_days(is_correct, times_reviewed, times_correct)
    IN [f EXCEPT !.times_reviewed = times_reviewed,
                 !.times_correct = times_correct,
                 !.last_reviewed = now,
                 !.next_review = now + days]

\* SELECT the counters WHERE id = ? AND user_id = ?; return False when no
\* row; else UPDATE the card and INSERT the history event in one
\* transaction, and return True.
update_flashcard_review_body(flashcard_id, is_correct, u) ==
    LET arg == [NoArg EXCEPT !.id = flashcard_id, !.ok = is_correct]
        card == {f \in flashcards : f.id = flashcard_id /\ f.user_id = u.val}
    IN IF card = {}
       THEN /\ last' = Outcome("update_flashcard_review", u, arg, "false", 1)
            /\ UNCHANGED <<tables, now>>
       ELSE /\ flashcards' = (flashcards \ card)
                             \cup {reviewed_card(f, is_correct) : f \in card}
            /\ learning_history' = learning_history \cup
                   {HistoryEvent(sqlite_sequence.learning_history + 1, u.val,
                                 flashcard_id, NULL, is_correct)}
            /\ sqlite_sequence' = Bump("learning_history", 1)
            /\ last' = Outcome("update_flashcard_review", u, arg, "true", 3)
            /\ UNCHANGED <<documents, summaries, quiz_questions, now>>

\* The wrapped function, called on its own.
update_flashcard_review(flashcard_id, is_correct, u) ==
    IF ~require_user_id(u) THEN Rejected(u)
    ELSE /\ update_flashcard_review_body(flashcard_id, is_correct, u)
         /\ UNCHANGED rest

\* Mutant: the condition without its parentheses, user_id = ? AND
\* next_review IS NULL OR next_review <= datetime('now').
due_cards_without_parentheses(user_id) ==
    {f \in flashcards :
        \/ f.user_id = user_id /\ f.next_review = NULL
        \/ f.next_review # NULL /\ f.next_review <= now}

\* Mutant: next_review < datetime('now') in place of <=.
due_cards_strictly_past(user_id) ==
    {f \in flashcards :
        /\ f.user_id = user_id
        /\ (f.next_review = NULL \/ f.next_review < now)}

\* WHERE f.user_id = ? AND (f.next_review IS NULL OR f.next_review <= datetime('now'))
due_cards(user_id) ==
    {f \in flashcards :
        /\ f.user_id = user_id
        /\ (f.next_review = NULL \/ f.next_review <= now)}

Min(a, b) == IF a <= b THEN a ELSE b

\* Mutant: the query with JOIN in place of LEFT JOIN.
get_flashcards_for_review_inner_join(user_id, limit) ==
    LET due == {f \in due_cards(user_id) : DocExists(f.document_id)}
        k == IF limit < 0 THEN Cardinality(due) ELSE Min(limit, Cardinality(due))
        row(f) == [id |-> f.id, document |-> JoinedDocument(f.document_id),
                   times_reviewed |-> f.times_reviewed]
    IN {[i \in 1 .. k |-> row(s[i])] :
          s \in {t \in [1 .. k -> due] :
                   /\ \A i, j \in 1 .. k : i < j =>
                         /\ t[i] # t[j]
                         /\ t[i].times_reviewed <= t[j].times_reviewed
                   /\ \A f \in due : (\A i \in 1 .. k : t[i] # f) =>
                         \A i \in 1 .. k : t[i].times_reviewed <= f.times_reviewed}}

\* Mutant: the query without its ORDER BY.
get_flashcards_for_review_unordered(user_id, limit) ==
    LET due == due_cards(user_id)
        k == IF limit < 0 THEN Cardinality(due) ELSE Min(limit, Cardinality(due))
        row(f) == [id |-> f.id, document |-> JoinedDocument(f.document_id),
                   times_reviewed |-> f.times_reviewed]
    IN {[i \in 1 .. k |-> row(s[i])] :
          s \in {t \in [1 .. k -> due] : \A i, j \in 1 .. k : i < j => t[i] # t[j]}}

\* The lists the due-set query may return: ORDER BY f.times_reviewed ASC,
\* RANDOM() LIMIT ? (a negative LIMIT is no limit). Every order of the
\* equally reviewed cards is possible.
get_flashcards_for_review(user_id, limit) ==
    LET due == due_cards(user_id)
        k == IF limit < 0 THEN Cardinality(due) ELSE Min(limit, Cardinality(due))
        row(f) == [id |-> f.id, document |-> JoinedDocument(f.document_id),
                   times_reviewed |-> f.times_reviewed]
    IN {[i \in 1 .. k |-> row(s[i])] :
          s \in {t \in [1 .. k -> due] :
                   /\ \A i, j \in 1 .. k : i < j =>
                         /\ t[i] # t[j]
                         /\ t[i].times_reviewed <= t[j].times_reviewed
                   /\ \A f \in due : (\A i \in 1 .. k : t[i] # f) =>
                         \A i \in 1 .. k : t[i].times_reviewed <= f.times_reviewed}}

\* -------------------------------------------------------- quiz questions
\* A text is the sequence of its pieces: letters, and the separator that
\* create_quiz_questions_bulk puts between the options.
Sep == "|||"

\* '|||'.join(q.get('options', [])) if q.get('options') else ''
RECURSIVE join(_)
join(options) ==
    IF options = <<>> THEN <<>>
    ELSE IF Len(options) = 1 THEN options[1]
    ELSE options[1] \o <<Sep>> \o join(Tail(options))

\* options_str.split('|||')
RECURSIVE split(_)
split(options_str) ==
    IF \A i \in DOMAIN options_str : options_str[i] # Sep THEN <<options_str>>
    ELSE LET k == CHOOSE i \in DOMAIN options_str :
                      /\ options_str[i] = Sep
                      /\ \A j \in 1 .. i - 1 : options_str[j] # Sep
         IN <<SubSeq(options_str, 1, k - 1)>>
                \o split(SubSeq(options_str, k + 1, Len(options_str)))

\* The items of a questions_list, by what the store and the quiz tab read
\* of them: a two-option question whose first option is the answer, and
\* an open-ended question, which has no options.
MultipleChoice ==
    [question |-> "q", options |-> << <<"a">>, <<"b">> >>, answer |-> <<"a">>]

OpenEnded == [question |-> "q", options |-> <<>>, answer |-> <<"a">>]

QuestionWithoutText == [MultipleChoice EXCEPT !.question = Missing]

QuestionWithNullText == [MultipleChoice EXCEPT !.question = PyNone]

Questions(n) == [i \in 1 .. n |-> MultipleChoice]

NewQuestion(id, user_id, document_id, q) ==
    [id |-> id, user_id |-> user_id, document_id |-> document_id,
     options |-> join(q.options), correct_answer |-> q.answer]

\* params_list = [(user_id, document_id, q.get('type', ...), q['question'],
\* ...) for q in questions_list] raises KeyError at an item without the
\* key, before any statement.
QuestionKeyError(questions_list) ==
    \E i \in DOMAIN questions_list : questions_list[i].question = Missing

\* The rows of params_list the table rejects: question_text is TEXT NOT
\* NULL, and document_id REFERENCES documents(id).
QuestionsRejected(questions_list, document_id) ==
    {i \in DOMAIN questions_list :
        questions_list[i].question = PyNone \/ ~fk_document_ok(document_id)}

\* INSERT INTO quiz_questions (user_id, document_id, ..., options,
\* correct_answer, ...) once per item of questions_list, in one transaction
\* (create_quiz_question: one item).
InsertQuizQuestions(op, questions_list, document_id, u) ==
    LET n == Len(questions_list)
        arg == [NoArg EXCEPT !.doc = document_id, !.n = n]
        first == sqlite_sequence.quiz_questions + 1
        rows == [i \in 1 .. n |-> NewQuestion(first + i - 1, u.val, document_id,
                                              questions_list[i])]
        done == execute_many(quiz_questions, rows,
                             QuestionsRejected(questions_list, document_id))
    IN IF QuestionKeyError(questions_list)
       THEN /\ last' = Outcome(op, u, arg, "KeyError", 0)
            /\ UNCHANGED <<tables, now, rest>>
       ELSE /\ quiz_questions' = done.table
            /\ sqlite_sequence' = Bump("quiz_questions", done.rowcount)
            /\ last' = Outcome(op, u,
                               [arg EXCEPT !.id = IF done.ret = "ok" THEN first ELSE NULL,
                                           !.rowcount = done.rowcount],
                               done.ret, 1)
            /\ UNCHANGED <<documents, summaries, flashcards, learning_history, now, rest>>

create_quiz_question(document_id, u) ==
    IF ~require_user_id(u) THEN Rejected(u)
    ELSE InsertQuizQuestions("create_quiz_question", Questions(1), document_id, u)

create_quiz_questions_bulk(questions_list, document_id, u) ==
    IF ~require_user_id(u) THEN Rejected(u)
    ELSE InsertQuizQuestions("create_quiz_questions_bulk", questions_list, document_id, u)

\* SELECT q.id, d.filename, ... FROM quiz_questions q LEFT JOIN documents d
\*   ON q.document_id = d.id WHERE q.user_id = ? [AND q.document_id = ?]
get_quiz_questions(user_id, document_id) ==
    {[id |-> q.id, document |-> JoinedDocument(q.document_id)] :
        q \in {r \in quiz_questions :
                 /\ r.user_id = user_id
                 /\ (document_id # NULL => r.document_id = document_id)}}

\* The sets of rows get_random_quiz may return: ORDER BY RANDOM() LIMIT ?
get_random_quiz(user_id, document_id, count) ==
    LET all == {[id |-> q.id, options |-> q.options, correct_answer |-> q.correct_answer] :
                   q \in {r \in quiz_questions :
                            /\ r.user_id = user_id
                            /\ (document_id # NULL => r.document_id = document_id)}}
        k == IF count < 0 THEN Cardinality(all) ELSE Min(count, Cardinality(all))
    IN {S \in SUBSET all : Cardinality(S) = k}

\* INSERT INTO learning_history (user_id, quiz_question_id, result)
log_quiz_result_body(quiz_question_id, is_correct, u) ==
    IF /\ schema = "legacy_migrated"
       /\ \A q \in quiz_questions : q.id # quiz_question_id
    THEN \* FOREIGN KEY (quiz_question_id) REFERENCES quiz_questions(id)
         /\ last' = Outcome("log_quiz_result", u,
                            [NoArg EXCEPT !.id = quiz_question_id, !.ok = is_correct],
                            "IntegrityError", 1)
         /\ UNCHANGED <<tables, now>>
    ELSE LET id == sqlite_sequence.learning_history + 1 IN
         /\ learning_history' = learning_history \cup
                {HistoryEvent(id, u.val, NULL, quiz_question_id, is_correct)}
         /\ sqlite_sequence' = Bump("learning_history", 1)
         /\ last' = Outcome("log_quiz_result", u,
                            [NoArg EXCEPT !.id = quiz_question_id, !.ok = is_correct],
                            "ok", 1)
         /\ UNCHANGED <<documents, summaries, flashcards, quiz_questions, now>>

\* The wrapped function, called on its own.
log_quiz_result(quiz_question_id, is_correct, u) ==
    IF ~require_user_id(u) THEN Rejected(u)
    ELSE /\ log_quiz_result_body(quiz_question_id, is_correct, u)
         /\ UNCHANGED rest

\* -------------------------------------------------------- study material
\* What generate_summary returns: the text of the model, the text its
\* except branch builds, or an empty text.
GeneratedSummary == "## Konu"

SummaryFailure == "Ozet olusturulurken hata: connection refused"

SummaryTexts == {GeneratedSummary, SummaryFailure, ""}

\* Mutant: every text that is not empty is saved.
summary_is_saved_unless_empty(summary) == summary # ""

\* `summary and not summary.startswith("Ozet olusturulurken hata")`
summary_is_saved(summary) == summary # "" /\ summary # SummaryFailure

\* What generate_flashcards and generate_quiz return: the items that have
\* both keys (their values are not looked at), or [] when the call or the
\* parsing failed.
GeneratedCards == {<<>>, <<GoodCard>>, <<CardWithNullQuestion>>}

GeneratedQuestions == {<<>>, <<OpenEnded>>, <<QuestionWithNullText>>}

\* The exception one store call of generate_study_material raises, or
\* "ok": ValueError from require_user_id, else that of the INSERT.
store_call(u, insert_ret) == IF ~require_user_id(u) THEN "ValueError" ELSE insert_ret

\* generate_study_material(text, document_id, ..., user_id): ValueError
\* when user_id is None; else, inside one try: the summary is generated
\* and, when it is a text that does not start with the failure prefix,
\* saved; the flashcards are generated and, when the list is not empty,
\* saved; likewise the quiz questions; then mark_document_processed. Each
\* store call commits on its own. `except Exception as e` prints e, and
\* the results dict is returned either way.
generate_study_material(summary, flashcards_list, questions_list, document_id, u) ==
    LET arg == [NoArg EXCEPT !.doc = document_id,
                             !.generated = [summary |-> summary,
                                            flashcards |-> flashcards_list,
                                            questions |-> questions_list]]
        s_try == summary_is_saved(summary)
        s_ret == IF s_try
                 THEN store_call(u, IF fk_document_ok(document_id) THEN "ok"
                                    ELSE "IntegrityError")
                 ELSE "ok"
        f_try == s_ret = "ok" /\ flashcards_list # <<>>
        f_first == sqlite_sequence.flashcards + 1
        f_rows == [i \in DOMAIN flashcards_list |->
                      NewCard(f_first + i - 1, u.val, document_id)]
        f_done == execute_many(flashcards, f_rows, CardsRejected(flashcards_list, document_id))
        f_ret == IF f_try THEN store_call(u, f_done.ret) ELSE s_ret
        q_try == f_ret = "ok" /\ questions_list # <<>>
        q_first == sqlite_sequence.quiz_questions + 1
        q_rows == [i \in DOMAIN questions_list |->
                      NewQuestion(q_first + i - 1, u.val, document_id, questions_list[i])]
        q_done == execute_many(quiz_questions, q_rows,
                               QuestionsRejected(questions_list, document_id))
        q_ret == IF q_try THEN store_call(u, q_done.ret) ELSE f_ret
        m_try == q_ret = "ok"
        m_ret == IF m_try THEN store_call(u, "ok") ELSE q_ret
        hit == {d \in documents : d.id = document_id /\ d.user_id = u.val}
        calls == IF require_user_id(u)
                 THEN Cardinality({c \in {"s", "f", "q", "m"} :
                                     \/ c = "s" /\ s_try
                                     \/ c = "f" /\ f_try
                                     \/ c = "q" /\ q_try
                                     \/ c = "m" /\ m_try})
                 ELSE 0
    IN IF u.kind = "none"
       THEN /\ last' = Outcome("generate_study_material", u, arg, "ValueError", 0)
            /\ UNCHANGED <<tables, now, rest>>
       ELSE /\ summaries' =
                   IF s_try /\ s_ret = "ok"
                   THEN summaries \cup {[id |-> sqlite_sequence.summaries + 1,
                                         user_id |-> u.val, document_id |-> document_id]}
                   ELSE summaries
            /\ flashcards' = IF f_try /\ f_ret = "ok" THEN f_done.table ELSE flashcards
            /\ quiz_questions' = IF q_try /\ q_ret = "ok" THEN q_done.table ELSE quiz_questions
            /\ documents' =
                   IF m_try /\ m_ret = "ok"
                   THEN (documents \ hit) \cup {[d EXCEPT !.is_processed = 1] : d \in hit}
                   ELSE documents
            /\ sqlite_sequence' =
                   [sqlite_sequence EXCEPT
                       !.summaries = IF s_try /\ s_ret = "ok" THEN @ + 1 ELSE @,
                       !.flashcards = IF f_try /\ f_ret = "ok" THEN @ + f_done.rowcount ELSE @,
                       !.quiz_questions =
                           IF q_try /\ q_ret = "ok" THEN @ + q_done.rowcount ELSE @]
            /\ last' = Outcome("generate_study_material", u,
                               [arg EXCEPT !.printed = IF m_ret = "ok" THEN "" ELSE m_ret],
                               "results", calls)
            /\ UNCHANGED <<learning_history, now, rest>>

\* ------------------------------------------------------------ statistics
\* Mutant: the rate cut after its first decimal.
success_rate_truncated(correct, total) ==
    IF total = 0 THEN 0 ELSE (1000 * correct) \div total

\* round(result, 1) if result else 0, in tenths of a percent, where result is
\* correct * 100.0 / total and NULL when the tenant has no event. A tie needs
\* a total that is a multiple of 16; the quotient is then a multiple of 0.25,
\* which the float holds exactly, and round() takes the even neighbour.
success_rate_tenths(correct, total) ==
    IF total = 0 \/ correct = 0 THEN 0
    ELSE LET floor == (1000 * correct) \div total
             rem == (1000 * correct) % total
         IN IF 2 * rem < total THEN floor
            ELSE IF 2 * rem > total THEN floor + 1
            ELSE IF floor % 2 = 0 THEN floor ELSE floor + 1

\* Mutant: the success rate taken over the events of every tenant.
get_learning_stats_of_all_tenants(user_id) ==
    LET mine == {h \in learning_history : h.user_id = user_id} IN
    [total_documents |-> Cardinality({d \in documents : d.user_id = user_id}),
     total_flashcards |-> Cardinality({f \in flashcards : f.user_id = user_id}),
     total_questions |-> Cardinality({q \in quiz_questions : q.user_id = user_id}),
     cards_reviewed_today |->
         Cardinality({h \in mine : h.flashcard_id # NULL /\ h.review_date = now}),
     success_rate |->
         success_rate_tenths(Cardinality({h \in learning_history : h.result = "correct"}),
                             Cardinality(learning_history))]

get_learning_stats(user_id) ==
    LET mine == {h \in learning_history : h.user_id = user_id} IN
    [total_documents |-> Cardinality({d \in documents : d.user_id = user_id}),
     total_flashcards |-> Cardinality({f \in flashcards : f.user_id = user_id}),
     total_questions |-> Cardinality({q \in quiz_questions : q.user_id = user_id}),
     cards_reviewed_today |->
         Cardinality({h \in mine : h.flashcard_id # NULL /\ h.review_date = now}),
     success_rate |->
         success_rate_tenths(Cardinality({h \in mine : h.result = "correct"}),
                             Cardinality(mine))]

\* A call of get_learning_stats: the wrapper, then the five SELECTs. The
\* returned success_rate is kept in last.arg.n, in tenths of a percent.
call_get_learning_stats(u) ==
    IF ~require_user_id(u) THEN Rejected(u)
    ELSE /\ last' = Outcome("get_learning_stats", u,
                            [NoArg EXCEPT !.n = get_learning_stats(u.val).success_rate],
                            "ok", 5)
         /\ UNCHANGED <<tables, now, rest>>

\* ------------------------------------------------------- read operations
\* A call of one of the guarded read operations (get_documents,
\* get_document, get_summaries, get_flashcards, get_flashcards_for_review,
\* get_quiz_questions, get_random_quiz, get_learning_stats): the query runs
\* only when the wrapper lets the call through, and changes no table.
read_operation(u) ==
    IF ~require_user_id(u) THEN Rejected(u)
    ELSE /\ last' = Outcome("read", u, NoArg, "ok", 1)
         /\ UNCHANGED <<tables, now, rest>>

\* ------------------------------------------- the legacy module database.py
\* Its functions take no user_id and are not wrapped; a row they insert
\* gets the column default, user_id = 1.
NoUserId == [kind |-> "none", val |-> 0]

\* database.save_document: INSERT INTO documents (filename, content, doc_type)
database_save_document ==
    LET id == sqlite_sequence.documents + 1 IN
    /\ documents' = documents \cup {[id |-> id, user_id |-> 1, is_processed |-> 0]}
    /\ sqlite_sequence' = Bump("documents", 1)
    /\ last' = Outcome("database.save_document", NoUserId, [NoArg EXCEPT !.id = id], "ok", 1)
    /\ UNCHANGED <<summaries, flashcards, quiz_questions, learning_history, now, rest>>

\* The `days` of database.update_flashcard_review.
database_review_days(is_correct, times_reviewed, times_correct) ==
    IF is_correct
    THEN IF success_rate_at_least(times_correct, times_reviewed, 8) THEN 30
         ELSE IF success_rate_at_least(times_correct, times_reviewed, 6) THEN 14
         ELSE IF success_rate_at_least(times_correct, times_reviewed, 4) THEN 7
         ELSE 3
    ELSE 1

\* database.update_flashcard_review: SELECT the counters WHERE id = ?
\* (TypeError on result[0] when there is no row), UPDATE, INSERT INTO
\* learning_history (flashcard_id, result), commit.
database_update_flashcard_review(flashcard_id, is_correct) ==
    LET arg == [NoArg EXCEPT !.id = flashcard_id, !.ok = is_correct]
        card == {f \in flashcards : f.id = flashcard_id}
    IN IF card = {}
       THEN /\ last' = Outcome("database.update_flashcard_review", NoUserId, arg,
                               "TypeError", 1)
            /\ UNCHANGED <<tables, now, rest>>
       ELSE /\ flashcards' = (flashcards \ card) \cup
                   {[f EXCEPT
                       !.times_reviewed = f.times_reviewed + 1,
                       !.times_correct = f.times_correct + (IF is_correct THEN 1 ELSE 0),
                       !.last_reviewed = now,
                       !.next_review = now + database_review_days(is_correct,
                            f.times_reviewed + 1,
                            f.times_correct + (IF is_correct THEN 1 ELSE 0))] : f \in card}
            /\ learning_history' = learning_history \cup
                   {HistoryEvent(sqlite_sequence.learning_history + 1, 1,
                                 flashcard_id, NULL, is_correct)}
            /\ sqlite_sequence' = Bump("learning_history", 1)
            /\ last' = Outcome("database.update_flashcard_review", NoUserId, arg, "ok", 3)
            /\ UNCHANGED <<documents, summaries, quiz_questions, now, rest>>

\* ------------------------------------------- a call taken step by step
\* No call in progress: no connection is open.
Closed ==
    [pc |-> "closed", uid |-> NoUserId, arg |-> NoArg,
     times_reviewed |-> 0, times_correct |-> 0,
     flashcards |-> {}, learning_history |-> {}]

\* A connection made by get_db has an open write transaction from its first
\* UPDATE or INSERT (sqlite3 begins one implicitly) until commit or close;
\* the store admits one writer at a time.
WriteLocked == conn.flashcards # {} \/ conn.learning_history # {}

\* Mutant: every statement is committed as it is executed.
close_in_autocommit(c) ==
    [flashcards |-> c.flashcards, learning_history |-> c.learning_history]

\* get_db's `finally: conn.close()` reached with no commit: the rows of the
\* open transaction that stay in the store. sqlite3 rolls the transaction
\* back, and so does the recovery after a crash of the process.
close_without_commit(c) == [flashcards |-> {}, learning_history |-> {}]

\* The store with the written rows in place.
Persist(written) ==
    /\ flashcards' = {f \in flashcards : \A g \in written.flashcards : g.id # f.id}
                     \cup written.flashcards
    /\ learning_history' = learning_history \cup written.learning_history
    /\ sqlite_sequence' = Bump("learning_history", Cardinality(written.learning_history))
    /\ UNCHANGED <<documents, summaries, quiz_questions>>

\* Mutant: the counters are taken from the stored row when it is written.
card_as_stored(c, f) == f

\* The row f with the counters the call read with its SELECT:
\* times_reviewed = card['times_reviewed'] + 1 and times_correct are
\* computed from `card`, not from the row the UPDATE finds.
card_as_read(c, f) ==
    [f EXCEPT !.times_reviewed = c.times_reviewed, !.times_correct = c.times_correct]

\* update_flashcard_review up to the end of its SELECT (execute_query opens
\* and closes a connection of its own): False when there is no row.
update_flashcard_review_select(flashcard_id, is_correct, u) ==
    /\ conn.pc = "closed"
    /\ IF ~require_user_id(u) THEN Rejected(u)
       ELSE LET arg == [NoArg EXCEPT !.id = flashcard_id, !.ok = is_correct]
                card == {f \in flashcards : f.id = flashcard_id /\ f.user_id = u.val}
            IN IF card = {}
               THEN /\ last' = Outcome("update_flashcard_review", u, arg, "false", 1)
                    /\ UNCHANGED <<tables, now, rest>>
               ELSE /\ conn' = [Closed EXCEPT
                                  !.pc = "selected", !.uid = u, !.arg = arg,
                                  !.times_reviewed = (CHOOSE f \in card : TRUE).times_reviewed,
                                  !.times_correct = (CHOOSE f \in card : TRUE).times_correct]
                    /\ last' = Outcome("update_flashcard_review", u, arg, "running", 1)
                    /\ UNCHANGED <<tables, now, peer, session_state, schema>>

\* conn.execute(UPDATE flashcards SET times_reviewed = ?, ... WHERE id = ?
\* AND user_id = ?) with the values computed from the counters read.
update_flashcard_review_update ==
    /\ conn.pc = "selected"
    /\ conn' = [conn EXCEPT
                     !.pc = "updated",
                     !.flashcards =
                         {reviewed_card(card_as_read(conn, f), conn.arg.ok) :
                            f \in {g \in flashcards : /\ g.id = conn.arg.id
                                                     /\ g.user_id = conn.uid.val}}]
    /\ last' = Outcome("update_flashcard_review", conn.uid, conn.arg, "running", 2)
    /\ UNCHANGED <<tables, now, peer, session_state, schema>>

\* conn.execute(INSERT INTO learning_history ...) in the same transaction.
update_flashcard_review_insert ==
    /\ conn.pc = "updated"
    /\ conn' = [conn EXCEPT
                  !.pc = "inserted",
                  !.learning_history =
                      {HistoryEvent(sqlite_sequence.learning_history + 1, conn.uid.val,
                                    conn.arg.id, NULL, conn.arg.ok)}]
    /\ last' = Outcome("update_flashcard_review", conn.uid, conn.arg, "running", 3)
    /\ UNCHANGED <<tables, now, peer, session_state, schema>>

\* conn.commit(); return True
update_flashcard_review_commit ==
    /\ conn.pc = "inserted"
    /\ Persist([flashcards |-> conn.flashcards, learning_history |-> conn.learning_history])
    /\ conn' = Closed
    /\ last' = Outcome("update_flashcard_review", conn.uid, conn.arg, "true", 3)
    /\ UNCHANGED <<now, peer, session_state, schema>>

\* A statement raises (the store is locked or full), or the process stops,
\* before the commit: the connection is closed without commit.
update_flashcard_review_fail ==
    /\ conn.pc \in {"selected", "updated", "inserted"}
    /\ Persist(close_without_commit(conn))
    /\ conn' = Closed
    /\ last' = Outcome("update_flashcard_review", conn.uid, conn.arg, "error",
                        IF conn.pc = "selected" THEN 1 ELSE IF conn.pc = "updated" THEN 2 ELSE 3)
    /\ UNCHANGED <<now, peer, session_state, schema>>

\* update_flashcard_review called in a second session, up to the end of its
\* SELECT.
peer_select(flashcard_id, is_correct, u) ==
    LET arg == [NoArg EXCEPT !.id = flashcard_id, !.ok = is_correct]
        card == {f \in flashcards : f.id = flashcard_id /\ f.user_id = u.val}
    IN /\ peer.pc = "closed"
       /\ require_user_id(u)
       /\ card # {}
       /\ peer' = [Closed EXCEPT
                      !.pc = "selected", !.uid = u, !.arg = arg,
                      !.times_reviewed = (CHOOSE f \in card : TRUE).times_reviewed,
                      !.times_correct = (CHOOSE f \in card : TRUE).times_correct]
       /\ last' = Outcome("update_flashcard_review", u, arg, "running", 1)
       /\ UNCHANGED <<tables, now, conn, session_state, schema>>

\* The rest of that call: UPDATE, INSERT and commit. The store admits one
\* writer at a time, so the three take effect together, once no other
\* connection holds an open write transaction (the UPDATE waits for it).
peer_write ==
    /\ peer.pc = "selected"
    /\ ~WriteLocked
    /\ Persist([flashcards |->
                    {reviewed_card(card_as_read(peer, f), peer.arg.ok) :
                        f \in {g \in flashcards : /\ g.id = peer.arg.id
                                                 /\ g.user_id = peer.uid.val}},
                learning_history |->
                    {HistoryEvent(sqlite_sequence.learning_history + 1, peer.uid.val,
                                  peer.arg.id, NULL, peer.arg.ok)}])
    /\ peer' = Closed
    /\ last' = Outcome("update_flashcard_review", peer.uid, peer.arg, "true", 3)
    /\ UNCHANGED <<now, conn, session_state, schema>>

\* ------------------------------------------------------ the UI session
\* st.session_state.fc_state and quiz_state as the tabs create them.
NewFcState == [active |-> FALSE, cards |-> <<>>, idx |-> 0, show |-> FALSE]

NewQuizState ==
    [active |-> FALSE, questions |-> <<>>, current_index |-> 0, score |-> 0,
     answered |-> FALSE]

\* auth.set_session: the login page stores the user's id.
set_session(user_id) ==
    /\ session_state.user_id = NULL
    /\ session_state' = [session_state EXCEPT !.user_id = user_id]
    /\ last' = Outcome("set_session", [kind |-> "int", val |-> user_id], NoArg, "ok", 0)
    /\ UNCHANGED <<tables, now, conn, peer, schema>>

\* get_current_user_id() as both tabs pass it on, user_id=user_id.
CurrentUser == [kind |-> "int", val |-> session_state.user_id]

\* auth.clear_session, the button "Cikis Yap": of the keys the model holds,
\* keys_to_clear names user_id only; fc_state, quiz_state and the
\* selected_{idx} entries are not in the list and stay as they are.
clear_session ==
    /\ session_state.user_id # NULL
    /\ session_state' = [session_state EXCEPT !.user_id = NULL]
    /\ last' = Outcome("clear_session", CurrentUser, NoArg, "ok", 0)
    /\ UNCHANGED <<tables, now, conn, peer, schema>>

Max(a, b) == IF a >= b THEN a ELSE b

\* The values st.slider(label, min_value, max_value, value) can hand back:
\* the widget widens its range until min <= value <= max.
slider(min_value, max_value, value) ==
    LET lo == Min(min_value, max_value)
        hi == Max(lo, max_value)
    IN Min(value, lo) .. Max(value, hi)

\* list[:count]
Take(list, count) == SubSeq(list, 1, Min(count, Len(list)))

Ids(rows) == [i \in 1 .. Len(rows) |-> rows[i].id]

\* render_flashcard_tab, not active: the due cards are fetched and, when
\* there are some, the button "Basla" starts a session over the first
\* `count` of them. (cards keeps the ids, all the handlers below read.)
fc_start ==
    LET fc == session_state.fc_state IN
    /\ session_state.user_id # NULL
    /\ ~fc.active
    /\ \E review_cards \in get_flashcards_for_review(session_state.user_id, 20) :
          /\ review_cards # <<>>
          /\ \E count \in slider(5, Min(20, Len(review_cards)), 10) :
                session_state' = [session_state EXCEPT !.fc_state =
                    [active |-> TRUE, cards |-> Ids(Take(review_cards, count)),
                     idx |-> 0, show |-> FALSE]]
    /\ last' = Outcome("get_flashcards_for_review", CurrentUser,
                       [NoArg EXCEPT !.n = 20], "ok", 1)
    /\ UNCHANGED <<tables, now, conn, peer, schema>>

\* The button "Cevabi Goster".
fc_show_answer ==
    LET fc == session_state.fc_state IN
    /\ session_state.user_id # NULL
    /\ fc.active
    /\ fc.idx < Len(fc.cards)
    /\ ~fc.show
    /\ session_state' = [session_state EXCEPT !.fc_state.show = TRUE]
    /\ UNCHANGED <<tables, now, last, conn, peer, schema>>

\* Mutant: the outcome buttons offered before the answer is shown.
fc_answer_before_reveal(known) ==
    LET fc == session_state.fc_state IN
    /\ session_state.user_id # NULL
    /\ fc.active
    /\ fc.idx < Len(fc.cards)
    /\ update_flashcard_review_body(fc.cards[fc.idx + 1], known, CurrentUser)
    /\ session_state' = [session_state EXCEPT !.fc_state.idx = @ + 1,
                                               !.fc_state.show = FALSE]
    /\ UNCHANGED <<conn, peer, schema>>

\* The buttons "Bilmiyordum" (known = FALSE) and "Biliyordum" (TRUE):
\* update_flashcard_review(card_id, known, user_id=user_id), idx += 1,
\* show = False.
fc_answer(known) ==
    LET fc == session_state.fc_state IN
    /\ session_state.user_id # NULL
    /\ fc.active
    /\ fc.idx < Len(fc.cards)
    /\ fc.show
    /\ update_flashcard_review_body(fc.cards[fc.idx + 1], known, CurrentUser)
    /\ session_state' = [session_state EXCEPT !.fc_state.idx = @ + 1,
                                               !.fc_state.show = FALSE]
    /\ UNCHANGED <<conn, peer, schema>>

\* The button "Tekrar" of the completed session.
fc_again ==
    LET fc == session_state.fc_state IN
    /\ session_state.user_id # NULL
    /\ fc.active
    /\ fc.idx >= Len(fc.cards)
    /\ session_state' = [session_state EXCEPT !.fc_state.active = FALSE]
    /\ UNCHANGED <<tables, now, last, conn, peer, schema>>

\* The orders in which ORDER BY RANDOM() can hand back the rows S.
Orders(S) ==
    {q \in [1 .. Cardinality(S) -> S] : \A i, j \in 1 .. Cardinality(S) : i # j => q[i] # q[j]}

\* Mutant: the session started with whatever get_random_quiz returned.
quiz_start_unchecked(document_id) ==
    LET user_id == session_state.user_id
        all_questions == get_quiz_questions(user_id, NULL)
    IN /\ user_id # NULL
       /\ ~session_state.quiz_state.active
       /\ all_questions # {}
       /\ document_id # NULL => get_document(document_id, user_id) # None
       /\ \E question_count \in slider(5, Min(20, Cardinality(all_questions)), 10) :
             \E S \in get_random_quiz(user_id, document_id, question_count) :
                \E questions \in Orders(S) :
                   /\ session_state' = [session_state EXCEPT !.quiz_state =
                          [active |-> TRUE, questions |-> questions, current_index |-> 0,
                           score |-> 0, answered |-> FALSE]]
                   /\ last' = Outcome("get_random_quiz", CurrentUser,
                                      [NoArg EXCEPT !.doc = document_id, !.n = question_count],
                                      IF questions # <<>> THEN "ok" ELSE "empty", 1)
       /\ UNCHANGED <<tables, now, conn, peer, schema>>

\* render_quiz_tab, not active: when the tenant has questions, the button
\* "Sinava Basla" draws question_count of them, of all documents
\* (document_id = NULL) or of the chosen one, and starts the quiz
\* `if questions`.
quiz_start(document_id) ==
    LET user_id == session_state.user_id
        all_questions == get_quiz_questions(user_id, NULL)
    IN /\ user_id # NULL
       /\ ~session_state.quiz_state.active
       /\ all_questions # {}
       /\ document_id # NULL => get_document(document_id, user_id) # None
       /\ \E question_count \in slider(5, Min(20, Cardinality(all_questions)), 10) :
             \E S \in get_random_quiz(user_id, document_id, question_count) :
                \E questions \in Orders(S) :
                   /\ session_state' =
                          IF questions # <<>>
                          THEN [session_state EXCEPT !.quiz_state =
                                  [active |-> TRUE, questions |-> questions,
                                   current_index |-> 0, score |-> 0, answered |-> FALSE]]
                          ELSE session_state
                   /\ last' = Outcome("get_random_quiz", CurrentUser,
                                      [NoArg EXCEPT !.doc = document_id, !.n = question_count],
                                      IF questions # <<>> THEN "ok" ELSE "empty", 1)
       /\ UNCHANGED <<tables, now, conn, peer, schema>>

\* The current question of the quiz, as get_random_quiz handed it back.
CurrentQuestion ==
    session_state.quiz_state.questions[session_state.quiz_state.current_index + 1]

\* Mutant: the option buttons still offered after the answer.
quiz_select_option_again(i) ==
    LET quiz_state == session_state.quiz_state
        options_str == CurrentQuestion.options
        opt == split(options_str)[i]
    IN /\ session_state.user_id # NULL
       /\ quiz_state.active
       /\ quiz_state.current_index < Len(quiz_state.questions)
       /\ options_str # <<>>
       /\ i \in DOMAIN split(options_str)
       /\ session_state' = [session_state EXCEPT
              !.selected = (quiz_state.current_index :> opt) @@ @,
              !.quiz_state.answered = TRUE,
              !.quiz_state.score = IF opt = CurrentQuestion.correct_answer THEN @ + 1 ELSE @]
       /\ log_quiz_result_body(CurrentQuestion.id, opt = CurrentQuestion.correct_answer,
                               CurrentUser)
       /\ UNCHANGED <<conn, peer, schema>>

\* The i-th option button of the current question: answered = True, and
\* st.session_state[f'selected_{idx}'] = opt (kept in selected[idx]), and
\* when opt == correct, score += 1 and log_quiz_result(q_id, True), else
\* log_quiz_result(q_id, False). The buttons exist `if options_str`, one
\* per piece of options_str.split('|||'), while the question is not
\* answered.
quiz_select_option(i) ==
    LET quiz_state == session_state.quiz_state
        options_str == CurrentQuestion.options
        opt == split(options_str)[i]
    IN /\ session_state.user_id # NULL
       /\ quiz_state.active
       /\ quiz_state.current_index < Len(quiz_state.questions)
       /\ options_str # <<>>
       /\ i \in DOMAIN split(options_str)
       /\ ~quiz_state.answered
       /\ session_state' = [session_state EXCEPT
              !.selected = (quiz_state.current_index :> opt) @@ @,
              !.quiz_state.answered = TRUE,
              !.quiz_state.score = IF opt = CurrentQuestion.correct_answer THEN @ + 1 ELSE @]
       /\ log_quiz_result_body(CurrentQuestion.id, opt = CurrentQuestion.correct_answer,
                               CurrentUser)
       /\ UNCHANGED <<conn, peer, schema>>

\* Mutant: "Sonraki" offered on the completed quiz as well.
quiz_next_unbounded ==
    LET quiz_state == session_state.quiz_state IN
    /\ session_state.user_id # NULL
    /\ quiz_state.active
    /\ quiz_state.answered \/ quiz_state.current_index >= Len(quiz_state.questions)
    /\ session_state' = [session_state EXCEPT !.quiz_state.current_index = @ + 1,
                                               !.quiz_state.answered = FALSE]
    /\ UNCHANGED <<tables, now, last, conn, peer, schema>>

\* The button "Sonraki", offered once the question is answered.
quiz_next ==
    LET quiz_state == session_state.quiz_state IN
    /\ session_state.user_id # NULL
    /\ quiz_state.active
    /\ quiz_state.current_index < Len(quiz_state.questions)
    /\ quiz_state.answered
    /\ session_state' = [session_state EXCEPT !.quiz_state.current_index = @ + 1,
                                               !.quiz_state.answered = FALSE]
    /\ UNCHANGED <<tables, now, last, conn, peer, schema>>

\* The button "Yeni Sinav" of the completed quiz.
quiz_new ==
    LET quiz_state == session_state.quiz_state IN
    /\ session_state.user_id # NULL
    /\ quiz_state.active
    /\ quiz_state.current_index >= Len(quiz_state.questions)
    /\ session_state' = [session_state EXCEPT !.quiz_state = NewQuizState]
    /\ UNCHANGED <<tables, now, last, conn, peer, schema>>

\* ------------------------------------------------------------------ clock
Tick(t) ==
    /\ t > now
    /\ now' = t
    /\ last' = Outcome("tick", NoUserId, NoArg, "ok", 0)
    /\ UNCHANGED <<tables, rest>>

\* ---------------------------------------------------------- specification
\* The empty store as app.py's init_db() leaves it.
Created ==
    /\ documents = {}
    /\ summaries = {}
    /\ flashcards = {}
    /\ quiz_questions = {}
    /\ learning_history = {}
    /\ sqlite_sequence = [documents |-> 0, summaries |-> 0, flashcards |-> 0,
                          quiz_questions |-> 0, learning_history |-> 0]
    /\ now = 0
    /\ last = Outcome("init", NoUserId, NoArg, "ok", 0)
    /\ conn = Closed
    /\ peer = Closed
    /\ session_state = [user_id |-> NULL, fc_state |-> NewFcState,
                        quiz_state |-> NewQuizState,
                       selected |-> <<>>]

\* A fresh installation.
Init == Created /\ schema = "multi_tenant"

\* A fresh installation, or one whose tables database.init_db had created.
InitAnySchema == Created /\ schema \in Schemas

Bools == {TRUE, FALSE}

\* The user_id values of the registered users, as ints.
TenantInputs == {[kind |-> "int", val |-> v] : v \in Users}

Tenant1 == [kind |-> "int", val |-> 1]

Room(table, bound) == bound - sqlite_sequence[table]

\* The whole API of repo_documents at one instant, called with the user_id
\* values of `inputs`.
Api(inputs) ==
    \/ /\ Room("documents", MaxRows) > 0
       /\ \E u \in inputs : create_document(u)
    \/ \E u \in inputs, id \in 1 .. MaxRows : delete_document(id, u)
    \/ \E u \in inputs, id \in 1 .. MaxRows : mark_document_processed(id, u)
    \/ /\ Room("summaries", MaxRows) > 0
       /\ \E u \in inputs, d \in {NULL} \cup (1 .. MaxRows) : create_summary(d, u)
    \/ /\ Room("flashcards", MaxRows) > 0
       /\ \E u \in inputs, d \in {NULL} \cup (1 .. MaxRows) : create_flashcard(d, u)
    \/ \E u \in inputs, d \in {NULL} \cup (1 .. MaxRows),
          n \in 0 .. Room("flashcards", MaxRows) : create_flashcards_bulk(Cards(n), d, u)
    \/ /\ Room("quiz_questions", MaxRows) > 0
       /\ \E u \in inputs, d \in {NULL} \cup (1 .. MaxRows) : create_quiz_question(d, u)
    \/ \E u \in inputs, d \in {NULL} \cup (1 .. MaxRows),
          n \in 0 .. Room("quiz_questions", MaxRows) :
             create_quiz_questions_bulk(Questions(n), d, u)
    \/ /\ Room("learning_history", MaxRows) > 0
       /\ \E u \in inputs, id \in 1 .. MaxRows, ok \in Bools :
             update_flashcard_review(id, ok, u)
    \/ /\ Room("learning_history", MaxRows) > 0
       /\ \E u \in inputs, id \in 1 .. MaxRows, ok \in Bools :
             log_quiz_result(id, ok, u)
    \/ \E u \in inputs : read_operation(u)

\* The API called by the registered users.
Next == Api(TenantInputs)

Spec == Init /\ [][Next]_vars

\* The same store called with every kind of user_id, and also written
\* through the legacy module.
NextLegacy ==
    \/ Api(UserIdInputs)
    \/ /\ Room("documents", MaxRows) > 0
       /\ database_save_document
    \/ /\ Room("learning_history", MaxRows) > 0
       /\ \E id \in 1 .. MaxRows, ok \in Bools : database_update_flashcard_review(id, ok)

SpecLegacy == Init /\ [][NextLegacy]_vars

\* Documents only: creation, deletion, the processed flag and lookups.
NextDocs ==
    \/ /\ Room("documents", MaxDocs) > 0
       /\ \E u \in TenantInputs : create_document(u)
    \/ \E u \in TenantInputs, id \in 1 .. MaxDocs : delete_document(id, u)
    \/ \E u \in TenantInputs, id \in 1 .. MaxDocs : mark_document_processed(id, u)
    \/ \E u \in TenantInputs : read_operation(u)

SpecDocs == Init /\ [][NextDocs]_vars

\* Flashcards of both tenants, their reviews and the passing of time.
NextReview ==
    \/ /\ Room("flashcards", MaxCards) > 0
       /\ \E u \in TenantInputs : create_flashcard(NULL, u)
    \/ \E u \in TenantInputs, n \in 2 .. Room("flashcards", MaxCards) :
          create_flashcards_bulk(Cards(n), NULL, u)
    \/ /\ Room("learning_history", MaxHistory) > 0
       /\ \E u \in TenantInputs, id \in 1 .. MaxCards, ok \in Bools :
             update_flashcard_review(id, ok, u)
    \/ /\ Room("learning_history", MaxHistory) > 0
       /\ \E id \in 1 .. MaxCards, ok \in Bools : database_update_flashcard_review(id, ok)
    \/ \E u \in TenantInputs : read_operation(u)
    \/ \E t \in TimePoints : Tick(t)

SpecReview == Init /\ [][NextReview]_vars

\* The due-card query over cards that are created, reviewed and left to
\* come due again.
NextDue ==
    \/ /\ Room("flashcards", MaxCards) > 0
       /\ \E u \in TenantInputs : create_flashcard(NULL, u)
    \/ \E u \in TenantInputs, n \in 2 .. Room("flashcards", MaxCards) :
          create_flashcards_bulk(Cards(n), NULL, u)
    \/ /\ Room("learning_history", MaxHistory) > 0
       /\ \E u \in TenantInputs, id \in 1 .. MaxCards, ok \in Bools :
             update_flashcard_review(id, ok, u)
    \/ \E u \in TenantInputs : read_operation(u)
    \/ \E t \in TimePoints : Tick(t)

SpecDue == Init /\ [][NextDue]_vars

\* One tenant's cards reviewed again and again, through either module, in
\* one sitting held at any of the instants: the scheduling rule over every
\* review history up to MaxReviews outcomes.
NextSched ==
    \/ /\ sqlite_sequence.learning_history = 0
       /\ \E t \in TimePoints : Tick(t)
    \/ /\ sqlite_sequence.flashcards = 0
       /\ create_flashcards_bulk(Cards(MaxCards), NULL, [kind |-> "int", val |-> 1])
    \/ /\ Room("learning_history", MaxReviews) > 0
       /\ \E id \in 1 .. MaxCards, ok \in Bools :
             update_flashcard_review(id, ok, [kind |-> "int", val |-> 1])
    \/ /\ Room("learning_history", MaxReviews) > 0
       /\ \E id \in 1 .. MaxCards, ok \in Bools : database_update_flashcard_review(id, ok)

SpecSched == Init /\ [][NextSched]_vars

\* Reviews taken statement by statement, each of which may fail or be cut
\* short before its commit.
NextTxn ==
    \/ /\ Room("flashcards", MaxCards) > 0
       /\ ~WriteLocked
       /\ \E u \in TenantInputs : create_flashcard(NULL, u)
    \/ /\ Room("learning_history", MaxHistory) > 0
       /\ \E u \in TenantInputs, id \in 1 .. MaxCards, ok \in Bools :
             update_flashcard_review_select(id, ok, u)
    \/ update_flashcard_review_update
    \/ update_flashcard_review_insert
    \/ update_flashcard_review_commit
    \/ update_flashcard_review_fail
    \/ \E t \in TimePoints : Tick(t)

SpecTxn == Init /\ [][NextTxn]_vars

\* Documents with material linked to them, their reviews and quiz results,
\* and the deletion of documents, on either schema.
NextDelete ==
    \/ /\ Room("documents", MaxRows) > 0
       /\ \E u \in TenantInputs : create_document(u)
    \/ /\ Room("documents", MaxRows) > 0
       /\ database_save_document
    \/ /\ Room("summaries", MaxRows) > 0
       /\ \E u \in TenantInputs, d \in 1 .. MaxRows : create_summary(d, u)
    \/ /\ Room("flashcards", MaxRows) > 0
       /\ \E u \in TenantInputs, d \in {NULL} \cup (1 .. MaxRows) : create_flashcard(d, u)
    \/ /\ Room("quiz_questions", MaxRows) > 0
       /\ \E u \in TenantInputs, d \in {NULL} \cup (1 .. MaxRows) : create_quiz_question(d, u)
    \/ /\ Room("learning_history", MaxRows) > 0
       /\ \E u \in TenantInputs, id \in 1 .. MaxRows, ok \in Bools :
             update_flashcard_review(id, ok, u)
    \/ /\ Room("learning_history", MaxRows) > 0
       /\ \E u \in TenantInputs, id \in 1 .. MaxRows, ok \in Bools :
             log_quiz_result(id, ok, u)
    \/ \E u \in TenantInputs, id \in 1 .. MaxRows : delete_document(id, u)
    \/ \E u \in TenantInputs : read_operation(u)

SpecDelete == InitAnySchema /\ [][NextDelete]_vars

\* The writers of the learning history and what may remove the cards and
\* questions their events reference, called by one tenant.
NextHistory ==
    \/ /\ Room("documents", MaxRows) > 0
       /\ create_document(Tenant1)
    \/ /\ Room("flashcards", MaxRows) > 0
       /\ \E d \in 1 .. MaxRows : create_flashcard(d, Tenant1)
    \/ /\ Room("quiz_questions", MaxRows) > 0
       /\ \E d \in 1 .. MaxRows : create_quiz_question(d, Tenant1)
    \/ /\ Room("learning_history", MaxHistory) > 0
       /\ \E id \in 1 .. MaxRows, ok \in Bools :
             update_flashcard_review(id, ok, Tenant1)
    \/ /\ Room("learning_history", MaxHistory) > 0
       /\ \E id \in 1 .. MaxRows, ok \in Bools :
             log_quiz_result(id, ok, Tenant1)
    \/ \E id \in 1 .. MaxRows : delete_document(id, Tenant1)

SpecHistory == Init /\ [][NextHistory]_vars

\* The statistics of a store whose history was written before: tenant 1 has
\* reviewed cards and answered questions, correctly and not, tenant 2 has
\* answered questions, and the document the card and the question came from
\* has been deleted since.
Events(first, n, user_id, flashcard_id, quiz_question_id, is_correct) ==
    {[id |-> first + i, user_id |-> user_id, flashcard_id |-> flashcard_id,
      quiz_question_id |-> quiz_question_id, result |-> result_text(is_correct),
      review_date |-> 0] : i \in 0 .. n - 1}

History(fc, fi, qc, qi, oc, oi) ==
    Events(1, fc, 1, 1, NULL, TRUE)
        \cup Events(1 + fc, fi, 1, 1, NULL, FALSE)
        \cup Events(1 + fc + fi, qc, 1, NULL, 1, TRUE)
        \cup Events(1 + fc + fi + qc, qi, 1, NULL, 1, FALSE)
        \cup Events(1 + fc + fi + qc + qi, oc, 2, NULL, 1, TRUE)
        \cup Events(1 + fc + fi + qc + qi + oc, oi, 2, NULL, 1, FALSE)

InitStats ==
    /\ documents = {}
    /\ summaries = {}
    /\ flashcards = {}
    /\ quiz_questions = {}
    /\ \E fc \in 0 .. MaxCorrect, fi \in 0 .. MaxIncorrect, oc, oi \in 0 .. MaxOther :
          \E qc \in 0 .. MaxCorrect - fc, qi \in 0 .. MaxIncorrect - fi :
             /\ learning_history = History(fc, fi, qc, qi, oc, oi)
             /\ sqlite_sequence = [documents |-> 1, summaries |-> 0, flashcards |-> 1,
                                   quiz_questions |-> 1,
                                   learning_history |-> fc + fi + qc + qi + oc + oi]
    /\ now = 0
    /\ last = Outcome("init", NoUserId, NoArg, "ok", 0)
    /\ conn = Closed
    /\ peer = Closed
    /\ session_state = [user_id |-> NULL, fc_state |-> NewFcState,
                        quiz_state |-> NewQuizState,
                       selected |-> <<>>]
    /\ schema = "multi_tenant"

NextStats == \E u \in TenantInputs : call_get_learning_stats(u)

SpecStats == InitStats /\ [][NextStats]_vars

\* The two study tabs of a logged-in user over a store holding cards,
\* questions and a document, as time passes.
NextSession ==
    \/ set_session(Tenant1.val)
    \/ /\ Room("documents", MaxRows) > 0
       /\ create_document(Tenant1)
    \/ /\ sqlite_sequence.flashcards = 0
       /\ create_flashcards_bulk(Cards(MaxRows), NULL, Tenant1)
    \/ /\ sqlite_sequence.quiz_questions = 0
       /\ create_quiz_questions_bulk(Questions(MaxRows), NULL, Tenant1)
    \/ fc_start
    \/ fc_show_answer
    \/ /\ Room("learning_history", MaxHistory) > 0
       /\ \E known \in Bools : fc_answer(known)
    \/ fc_again
    \/ \E document_id \in {NULL} \cup (1 .. MaxRows) : quiz_start(document_id)
    \/ /\ Room("learning_history", MaxHistory) > 0
       /\ \E i \in 1 .. MaxOptions : quiz_select_option(i)
    \/ quiz_next
    \/ quiz_new
    \/ \E t \in TimePoints : Tick(t)

SpecSession == Init /\ [][NextSession]_vars

\* A question whose stored answer is none of its options.
AnswerNotOffered == [MultipleChoice EXCEPT !.answer = <<"c">>]

\* The items generate_quiz hands to create_quiz_questions_bulk: options is
\* q.get('options', []), so an item may have none.
QuestionItems == {MultipleChoice, OpenEnded, AnswerNotOffered}

QuestionLists == UNION {[1 .. n -> QuestionItems] : n \in 1 .. MaxQuestions}

\* The quiz tab of one logged-in tenant, over questions of every kind.
NextQuiz ==
    \/ set_session(Tenant1.val)
    \/ /\ sqlite_sequence.quiz_questions = 0
       /\ \E questions_list \in QuestionLists :
             create_quiz_questions_bulk(questions_list, NULL, Tenant1)
    \/ quiz_start(NULL)
    \/ /\ Room("learning_history", MaxAnswers) > 0
       /\ \E i \in 1 .. MaxOptions : quiz_select_option(i)
    \/ quiz_next
    \/ quiz_new

SpecQuiz == Init /\ [][NextQuiz]_vars

\* The option buttons of the current question, taken together.
quiz_answer == \E i \in 1 .. MaxOptions : quiz_select_option(i)

\* One quiz of the logged-in tenant from "Sinavi Baslat" on, started while
\* the history has room for an answer to each of its questions.
NextQuizRun ==
    \/ set_session(Tenant1.val)
    \/ /\ sqlite_sequence.quiz_questions = 0
       /\ \E questions_list \in QuestionLists :
             create_quiz_questions_bulk(questions_list, NULL, Tenant1)
    \/ /\ Room("learning_history", MaxAnswers) >= MaxQuestions
       /\ quiz_start(NULL)
    \/ quiz_answer
    \/ quiz_next
    \/ quiz_new

\* The user keeps acting: a button that stays offered is pressed at some
\* point, be it an option or "Sonraki".
SpecQuizFair ==
    /\ Init
    /\ [][NextQuizRun]_vars
    /\ WF_vars(quiz_answer)
    /\ WF_vars(quiz_next)

\* One browser session used by both tenants in turn: login, both tabs,
\* logout, login of the other tenant.
NextLogout ==
    \/ \E user_id \in Users : set_session(user_id)
    \/ clear_session
    \/ /\ session_state.user_id # NULL
       /\ sqlite_sequence.flashcards = 0
       /\ create_flashcards_bulk(Cards(1), NULL, CurrentUser)
    \/ /\ session_state.user_id # NULL
       /\ sqlite_sequence.quiz_questions = 0
       /\ create_quiz_questions_bulk(Questions(1), NULL, CurrentUser)
    \/ fc_start
    \/ fc_show_answer
    \/ quiz_start(NULL)
    \/ /\ Room("learning_history", MaxAnswers) > 0
       /\ \E i \in 1 .. MaxOptions : quiz_select_option(i)
    \/ quiz_next
    \/ quiz_new

SpecLogout == Init /\ [][NextLogout]_vars

\* The lists handed to the bulk inserts: well-formed items, items without
\* a key and items holding None, in every position.
CardLists ==
    UNION {[1 .. n -> {GoodCard, CardWithoutAnswer, CardWithNullQuestion}] :
              n \in 0 .. MaxItems}

BulkQuestionLists ==
    UNION {[1 .. n -> {MultipleChoice, QuestionWithoutText, QuestionWithNullText}] :
              n \in 0 .. MaxItems}

\* The bulk inserts of both tenants, for a document that exists or does
\* not.
NextBulk ==
    \/ /\ sqlite_sequence.documents = 0
       /\ create_document(Tenant1)
    \/ \E u \in TenantInputs, d \in {NULL, 1}, flashcards_list \in CardLists :
          /\ Room("flashcards", MaxStored) >= Len(flashcards_list)
          /\ create_flashcards_bulk(flashcards_list, d, u)
    \/ \E u \in TenantInputs, d \in {NULL, 1}, questions_list \in BulkQuestionLists :
          /\ sqlite_sequence.quiz_questions = 0
          /\ create_quiz_questions_bulk(questions_list, d, u)

SpecBulk == Init /\ [][NextBulk]_vars

\* The upload panel of one tenant: "Yukle" creates the document;
\* "Materyal" creates it and calls generate_study_material with the new id,
\* with every outcome of the three generations; the documents list deletes.
NextMaterial ==
    \/ /\ Room("documents", MaxMaterial) > 0
       /\ create_document(Tenant1)
    \/ /\ last.op = "create_document" /\ last.ret = "ok"
       /\ \E summary \in SummaryTexts, flashcards_list \in GeneratedCards,
             questions_list \in GeneratedQuestions :
             generate_study_material(summary, flashcards_list, questions_list,
                                     last.arg.id, Tenant1)
    \/ \E id \in 1 .. MaxMaterial : delete_document(id, Tenant1)

SpecMaterial == Init /\ [][NextMaterial]_vars

\* Two sessions of one tenant reviewing its cards at the same time, one
\* taken statement by statement and one by its SELECT and its transaction.
NextRace ==
    \/ /\ Room("flashcards", MaxCards) > 0
       /\ ~WriteLocked
       /\ create_flashcard(NULL, Tenant1)
    \/ /\ Room("learning_history", MaxRace) > 0
       /\ \E id \in 1 .. MaxCards, ok \in Bools : update_flashcard_review_select(id, ok, Tenant1)
    \/ update_flashcard_review_update
    \/ update_flashcard_review_insert
    \/ update_flashcard_review_commit
    \/ /\ Room("learning_history", MaxRace) > 0
       /\ \E id \in 1 .. MaxCards, ok \in Bools : peer_select(id, ok, Tenant1)
    \/ peer_write

SpecRace == Init /\ [][NextRace]_vars

\* ------------------------------------------------------------ properties
Accepted(l) == l.op \notin {"init", "tick"} /\ l.ret # "ValueError"

\* A user_id that is missing, zero, negative or not an integer.
InvalidTenantInput(u) ==
    \/ u.kind = "none"
    \/ u.kind = "str"
    \/ u.kind = "int" /\ u.val <= 0

\* C1: every operation on document, summary, flashcard, quiz or history
\* data, of whichever module, called with a missing, zero, negative or
\* non-integer user_id fails with the invalid-tenant error and executes no
\* statement on the storage.
C1_InvalidTenantRejectedBeforeStorage ==
    (last.op \notin {"init", "tick"} /\ InvalidTenantInput(last.uid))
        => (last.ret = "ValueError" /\ last.calls = 0)

\* C2: a lookup of a document of tenant B by another tenant A returns None,
\* exactly what a lookup of an id that was never issued returns.
C2_ForeignDocumentIsNotFound ==
    \A d \in documents : \A A \in Users :
        A # d.user_id =>
            /\ get_document(d.id, A) = None
            /\ get_document(d.id, A) = get_document(sqlite_sequence.documents + 1, A)

C2_Witness ==
    /\ last.op = "read" /\ last.uid.val = 1
    /\ \E d, e \in documents :
          /\ d.user_id = 2 /\ e.user_id = 1
          /\ get_document(e.id, 1) = e
          /\ get_document(d.id, 2) = d

\* What tenant A can read: the result of each read operation, for every
\* document id that can be issued (for the two randomised queries, the set
\* of possible results).
View(A) ==
    [get_documents |-> get_documents(A),
     get_document |-> [id \in 1 .. MaxRows |-> get_document(id, A)],
     get_summaries |->
         [d \in {NULL} \cup (1 .. MaxRows) |-> get_summaries(A, d)],
     get_flashcards |->
         [d \in {NULL} \cup (1 .. MaxRows) |-> get_flashcards(A, d)],
     get_flashcards_for_review |-> get_flashcards_for_review(A, -1),
     get_quiz_questions |->
         [d \in {NULL} \cup (1 .. MaxRows) |-> get_quiz_questions(A, d)],
     get_random_quiz |->
         [d \in {NULL} \cup (1 .. MaxRows) |-> get_random_quiz(A, d, -1)],
     get_learning_stats |-> get_learning_stats(A)]

\* The rows tenant A owns.
OwnedRows(A) ==
    <<{d \in documents : d.user_id = A}, {x \in summaries : x.user_id = A},
      {f \in flashcards : f.user_id = A}, {q \in quiz_questions : q.user_id = A},
      {h \in learning_history : h.user_id = A}>>

\* C3: an operation called with user_id = B changes no result of a read
\* operation of another tenant A, and changes or deletes no row A owns.
C3_OtherTenantUnaffected ==
    [][\A A \in Users :
          (Accepted(last') /\ last'.uid.val # A)
              => (View(A)' = View(A) /\ OwnedRows(A)' = OwnedRows(A))]_vars

\* C4: a summary, flashcard or quiz question that references a document has
\* that document's owner, and a history event has the owner of the
\* flashcard or quiz question it references.
C4_LinksStayWithinTenant ==
    /\ \A d \in documents :
          \A x \in summaries \cup flashcards \cup quiz_questions :
              x.document_id = d.id => x.user_id = d.user_id
    /\ \A h \in learning_history :
          /\ \A f \in flashcards : h.flashcard_id = f.id => h.user_id = f.user_id
          /\ \A q \in quiz_questions : h.quiz_question_id = q.id => h.user_id = q.user_id

\* A review that found its card and wrote it, through either module.
SuccessfulReview(l) ==
    /\ l.op \in {"update_flashcard_review", "database.update_flashcard_review"}
    /\ l.ret \in {"true", "ok"}

\* C5: every flashcard has 0 <= times_correct <= times_reviewed, and each
\* successful review raises the card's times_reviewed by exactly 1 and its
\* times_correct by 1 when the outcome is correct and by 0 when it is not.
C5_CountersFollowOutcomes ==
    /\ [](\A f \in flashcards :
             0 <= f.times_correct /\ f.times_correct <= f.times_reviewed)
    /\ [][SuccessfulReview(last') =>
             \E f \in flashcards : \E g \in flashcards' :
                 /\ f.id = last'.arg.id /\ g.id = f.id
                 /\ g.times_reviewed = f.times_reviewed + 1
                 /\ g.times_correct =
                        f.times_correct + (IF last'.arg.ok THEN 1 ELSE 0)]_vars

C5_Witness ==
    /\ SuccessfulReview(last) /\ ~last.arg.ok
    /\ \E f \in flashcards :
          /\ f.id = last.arg.id
          /\ f.times_reviewed = 2 /\ f.times_correct = 1

\* C6: after a review with an incorrect outcome the card's next_review is
\* the review time plus exactly 1 day, whatever its counters and its
\* schedule were before.
C6_IncorrectSchedulesNextDay ==
    (SuccessfulReview(last) /\ ~last.arg.ok) =>
        \E f \in flashcards :
            /\ f.id = last.arg.id
            /\ f.last_reviewed = now
            /\ f.next_review = now + 1

C6_Witness ==
    /\ SuccessfulReview(last) /\ ~last.arg.ok
    /\ now = 1
    /\ \E f \in flashcards :
          /\ f.id = last.arg.id
          /\ f.times_reviewed = 2 /\ f.times_correct = 1
          /\ f.next_review = 2

\* The interval the rule states for a correct outcome at the success rate
\* c / r: 30 days from 0.8, 14 from 0.6, 7 from 0.4, 3 below.
TierDays(c, r) ==
    IF 5 * c >= 4 * r THEN 30
    ELSE IF 5 * c >= 3 * r THEN 14
    ELSE IF 5 * c >= 2 * r THEN 7
    ELSE 3

\* C7: after a review with a correct outcome the card's next_review is the
\* review time plus 30 days when the success rate after this review is at
\* least 0.8, else 14 days when at least 0.6, else 7 days when at least
\* 0.4, else 3 days; a rate equal to a boundary takes the higher tier.
C7_CorrectSchedulesByTier ==
    (SuccessfulReview(last) /\ last.arg.ok) =>
        \E f \in flashcards :
            /\ f.id = last.arg.id
            /\ f.next_review = now + TierDays(f.times_correct, f.times_reviewed)

C7_Witness ==
    /\ SuccessfulReview(last) /\ last.arg.ok
    /\ \E f \in flashcards :
          /\ f.id = last.arg.id
          /\ f.times_reviewed = 5 /\ f.times_correct = 2
          /\ f.next_review = now + 7

\* h is the most recent history event of card f.
IsLastEvent(h, f) ==
    /\ h.flashcard_id = f.id
    /\ \A g \in learning_history : g.flashcard_id = f.id => g.id <= h.id

LastOutcomeCorrect(f) ==
    \E h \in learning_history : IsLastEvent(h, f) /\ h.result = "correct"

\* The interval a card is scheduled with.
Interval(f) == f.next_review - f.last_reviewed

\* The success rate of card f is num / den.
RateIs(f, num, den) == den * f.times_correct = num * f.times_reviewed

\* For the cards whose latest outcome is correct: the interval does not
\* decrease as the success rate grows, and at the rates 0.4, 0.6, 0.8 and
\* 1.0 it is v4, v6, v8 and v10 days; at the rate 0 the rule gives v0 days.
StepFunction(v0, v4, v6, v8, v10) ==
    LET correct == {f \in flashcards : LastOutcomeCorrect(f)} IN
    /\ \A f, g \in correct :
          f.times_correct * g.times_reviewed <= g.times_correct * f.times_reviewed
              => Interval(f) <= Interval(g)
    /\ \A f \in correct :
          /\ RateIs(f, 2, 5) => Interval(f) = v4
          /\ RateIs(f, 3, 5) => Interval(f) = v6
          /\ RateIs(f, 4, 5) => Interval(f) = v8
          /\ RateIs(f, 1, 1) => Interval(f) = v10
    /\ \A r \in 0 .. MaxReviews : review_days(TRUE, r, 0) = v0

\* C8 as stated: for a correct outcome the interval is a monotonic
\* non-decreasing step function of the success rate, with the values 3, 3,
\* 7, 14 and 30 days at the rates 0, 0.4, 0.6, 0.8 and 1.0.
C8_AsStated == StepFunction(3, 3, 7, 14, 30)

\* C8: for a correct outcome the interval is a monotonic non-decreasing
\* step function of the success rate, with the values 3, 7, 14, 30 and 30
\* days at the rates 0, 0.4, 0.6, 0.8 and 1.0.
C8_IntervalIsMonotonicStepFunction == StepFunction(3, 7, 14, 30, 30)

C8_Witness ==
    /\ SuccessfulReview(last) /\ last.arg.ok
    /\ \E f \in flashcards :
          /\ f.id = last.arg.id
          /\ LastOutcomeCorrect(f)
          /\ RateIs(f, 2, 5)
          /\ Interval(f) = 7

\* C9: next_review and last_reviewed are present exactly when
\* times_reviewed >= 1, and a present next_review is last_reviewed plus the
\* interval of the rule for the outcome of the card's most recent history
\* event and the card's current times_correct / times_reviewed.
C9_NextReviewDerivedFromLastOutcome ==
    \A f \in flashcards :
        /\ (f.next_review # NULL) <=> (f.times_reviewed >= 1)
        /\ (f.last_reviewed # NULL) <=> (f.times_reviewed >= 1)
        /\ f.next_review # NULL =>
              \E h \in learning_history :
                  /\ IsLastEvent(h, f)
                  /\ f.next_review = f.last_reviewed +
                        (IF h.result = "correct"
                         THEN TierDays(f.times_correct, f.times_reviewed)
                         ELSE 1)

C9_Witness ==
    \E f \in flashcards :
        /\ f.times_reviewed = 2 /\ f.times_correct = 1
        /\ LastOutcomeCorrect(f)
        /\ f.next_review = f.last_reviewed + 7
        /\ now > f.last_reviewed

\* The cards a due-set result lists.
ReturnedCards(result) ==
    {f \in flashcards : \E i \in DOMAIN result : result[i].id = f.id}

\* C10: whatever the tenant, the query time and the limit, no card that
\* get_flashcards_for_review returns has a next_review later than the
\* query time, and none is owned by another tenant.
C10_DueSetHoldsNoFutureOrForeignCard ==
    \A A \in Users : \A limit \in -1 .. MaxCards + 1 :
        \A result \in get_flashcards_for_review(A, limit) :
            /\ Cardinality(ReturnedCards(result)) = Len(result)
            /\ \A f \in ReturnedCards(result) :
                  /\ f.user_id = A
                  /\ (f.next_review = NULL \/ f.next_review <= now)

C10_Witness ==
    /\ last.op = "read"
    /\ \E f, g \in flashcards :
          /\ f.user_id = 1 /\ f.next_review # NULL /\ f.next_review > now
          /\ g.user_id = 2 /\ g.next_review # NULL /\ g.next_review <= now
          /\ get_flashcards_for_review(1, -1) = {<<>>}
          /\ \E result \in get_flashcards_for_review(2, 1) : result[1].id = g.id

\* The cards of tenant A that are due: next_review absent or not later
\* than the query time.
DueOf(A) ==
    {f \in flashcards : f.user_id = A /\ (f.next_review = NULL \/ f.next_review <= now)}

\* C11: when the tenant's due cards (next_review absent or <= the query
\* time) are not more than the limit, get_flashcards_for_review returns
\* every one of them, newly created and document-less cards included.
C11_DueSetIsComplete ==
    \A A \in Users : \A limit \in 0 .. MaxCards + 1 :
        Cardinality(DueOf(A)) <= limit =>
            /\ get_flashcards_for_review(A, limit) # {}
            /\ \A result \in get_flashcards_for_review(A, limit) :
                  ReturnedCards(result) = DueOf(A)

C11_Witness ==
    /\ last.op = "create_flashcards_bulk" /\ last.arg.n = 2
    /\ \E f, g \in DueOf(last.uid.val) :
          /\ f.id # g.id
          /\ f.document_id = NULL /\ g.document_id = NULL
          /\ f.times_reviewed = 0 /\ f.times_correct = 0 /\ f.next_review = NULL
          /\ \A result \in get_flashcards_for_review(last.uid.val, 2) :
                ReturnedCards(result) = {f, g}

\* The interval chosen by the review that wrote event h for card f.
ChosenDays(h, f) ==
    IF h.result = "correct" THEN TierDays(f.times_correct, f.times_reviewed) ELSE 1

\* C12: a card whose latest review was recorded at time t with interval d
\* is in no due-set result of its owner at a query time before t + d, and
\* is in every result with a sufficient limit at a query time >= t + d; a
\* first review gives d = 30 when correct and d = 1 when incorrect.
C12_ReviewedCardReturnsWhenDue ==
    \A f \in flashcards : \A h \in learning_history :
        IsLastEvent(h, f) =>
            LET t == h.review_date
                d == ChosenDays(h, f)
                A == f.user_id
            IN /\ f.times_reviewed = 1 => d = (IF h.result = "correct" THEN 30 ELSE 1)
               /\ now < t + d =>
                     \A limit \in -1 .. MaxCards + 1 :
                         \A result \in get_flashcards_for_review(A, limit) :
                             f \notin ReturnedCards(result)
               /\ now >= t + d =>
                     \A limit \in Cardinality(DueOf(A)) .. MaxCards + 1 :
                         \A result \in get_flashcards_for_review(A, limit) :
                             f \in ReturnedCards(result)

C12_Witness ==
    /\ SuccessfulReview(last) /\ ~last.arg.ok /\ now = 30
    /\ \E f, g \in flashcards : \E h \in learning_history :
          /\ f.user_id = g.user_id
          /\ g.id = last.arg.id /\ g.next_review = 31
          /\ IsLastEvent(h, f) /\ h.result = "correct" /\ h.review_date = 0
          /\ f.times_reviewed = 1 /\ f.next_review = 30
          /\ \A result \in get_flashcards_for_review(f.user_id, MaxCards) :
                ReturnedCards(result) = {f}

\* C13: in the stored state the update of a card's counters and timestamps
\* and the append of its history event happen together or not at all,
\* also when the review fails or is cut short between the two writes.
C13_ReviewWritesAreAtomic ==
    [][\A f \in flashcards :
          (\E g \in flashcards' : g.id = f.id /\ g # f)
              <=> (\E h \in learning_history' \ learning_history :
                      /\ h.flashcard_id = f.id
                      /\ \E g \in flashcards' :
                            /\ g.id = f.id
                            /\ g.times_reviewed = f.times_reviewed + 1
                            /\ g.times_correct = f.times_correct +
                                  (IF h.result = "correct" THEN 1 ELSE 0))]_vars

C13_Witness ==
    /\ last.op = "update_flashcard_review" /\ last.ret = "error" /\ last.calls = 2
    /\ conn = Closed
    /\ peer = Closed
    /\ \E f \in flashcards :
          /\ f.id = last.arg.id
          /\ f.times_reviewed = 1
          /\ Cardinality({h \in learning_history : h.flashcard_id = f.id}) = 1

\* C14: the learning history is append-only: an event written by
\* update_flashcard_review or log_quiz_result stays in the history, with its
\* owner, its reference and its result unchanged, whatever operation follows,
\* the deletion of the referenced card's or question's document included.
C14_HistoryIsAppendOnly ==
    [][\A h \in learning_history :
          \E k \in learning_history' :
             /\ k.id = h.id
             /\ k.user_id = h.user_id
             /\ k.flashcard_id = h.flashcard_id
             /\ k.quiz_question_id = h.quiz_question_id
             /\ k.result = h.result]_vars

\* A document was deleted and the history still holds the event of a card
\* and of a question that went with it.
C14_Witness ==
    /\ last.op = "delete_document"
    /\ last.ret = "true"
    /\ \E h \in learning_history :
          /\ h.flashcard_id # NULL
          /\ \A f \in flashcards : f.id # h.flashcard_id
    /\ \E h \in learning_history :
          /\ h.quiz_question_id # NULL
          /\ \A q \in quiz_questions : q.id # h.quiz_question_id

\* The ids of the rows of a table that are linked to document d.
LinkedIds(rows, d) == {x.id : x \in {y \in rows : y.document_id = d.id}}

EventsOf(A) == {h \in learning_history : h.user_id = A}

CorrectOf(A) == {h \in EventsOf(A) : h.result = "correct"}

StatsReturned == last.op = "get_learning_stats" /\ last.ret = "ok"

\* C16: get_learning_stats of a tenant with no history event returns
\* success_rate 0 and raises nothing, whatever events other tenants have.
C16_NoEventsGivesZeroRate ==
    (last.op = "get_learning_stats" /\ EventsOf(last.uid.val) = {})
        => last.ret = "ok" /\ last.arg.n = 0

\* A tenant without events got its statistics while the other tenant has
\* events, correct ones among them.
C16_Witness ==
    /\ StatsReturned
    /\ EventsOf(last.uid.val) = {}
    /\ \E B \in Users : CorrectOf(B) # {}

\* C17: for a tenant with at least one event, the returned success_rate is
\* 100 * correct / total over the tenant's flashcard and quiz events taken
\* together, rounded to one decimal: it is a whole number of tenths no more
\* than 0.05 away from the quotient, and 66.7 for 10 correct and 5 incorrect.
C17_RateIsRoundedShareOfCorrect ==
    LET A == last.uid.val
        total == Cardinality(EventsOf(A))
        correct == Cardinality(CorrectOf(A))
        tenths == last.arg.n
    IN (StatsReturned /\ total >= 1)
          => /\ 2 * (1000 * correct - tenths * total) <= total
             /\ 2 * (tenths * total - 1000 * correct) <= total
             /\ (correct = 10 /\ total = 15) => tenths = 667

\* 10 correct and 5 incorrect events, of both kinds, gave 66.7.
C17_Witness ==
    /\ StatsReturned
    /\ last.arg.n = 667
    /\ Cardinality(CorrectOf(last.uid.val)) = 10
    /\ Cardinality(EventsOf(last.uid.val)) = 15
    /\ \E h \in EventsOf(last.uid.val) : h.flashcard_id # NULL
    /\ \E h \in EventsOf(last.uid.val) : h.quiz_question_id # NULL

\* The flashcard outcomes, and the quiz outcomes, that a step records.
RecordedReviews == {h \in learning_history' \ learning_history : h.flashcard_id # NULL}

RecordedAnswers == {h \in learning_history' \ learning_history : h.quiz_question_id # NULL}

\* C18: in a flashcard session an outcome is recorded only while the answer
\* is shown; the step that records it runs the review transition once, for
\* the current card, moves idx forward by exactly 1 and sets show to false;
\* within a session idx moves in no other way.
C18_OutcomeOnlyAfterReveal ==
    [][LET fc == session_state.fc_state
           card_id == fc.cards[fc.idx + 1]
       IN /\ RecordedReviews # {} =>
                /\ fc.active
                /\ fc.show
                /\ fc.idx < Len(fc.cards)
                /\ Cardinality(RecordedReviews) = 1
                /\ \A h \in RecordedReviews :
                      h.flashcard_id = card_id /\ h.user_id = session_state.user_id
                /\ \A f \in flashcards :
                      IF f.id = card_id
                      THEN \E g \in flashcards' :
                              g.id = f.id /\ g.times_reviewed = f.times_reviewed + 1
                      ELSE f \in flashcards'
                /\ session_state'.fc_state.idx = fc.idx + 1
                /\ ~session_state'.fc_state.show
          /\ (fc.active /\ session_state'.fc_state.active) =>
                \/ session_state'.fc_state.idx = fc.idx
                \/ /\ session_state'.fc_state.idx = fc.idx + 1
                   /\ fc.show
                   /\ RecordedReviews # {}]_vars

\* An outcome was just recorded for the first card of a session: the
\* session is at the next card with the answer hidden.
C18_Witness ==
    LET fc == session_state.fc_state IN
    /\ fc.active
    /\ fc.idx >= 1
    /\ ~fc.show
    /\ last.op = "update_flashcard_review"
    /\ last.ret = "true"
    /\ last.arg.id = fc.cards[fc.idx]
    /\ \E h \in learning_history : h.flashcard_id = fc.cards[fc.idx]

\* The branch "completed" of each tab: active and not idx < len(items).
FcCompleted ==
    /\ session_state.fc_state.active
    /\ ~(session_state.fc_state.idx < Len(session_state.fc_state.cards))

QuizCompleted ==
    /\ session_state.quiz_state.active
    /\ ~(session_state.quiz_state.current_index < Len(session_state.quiz_state.questions))

\* C19: in a flashcard session and in a quiz the index never exceeds the
\* number of items, and the session is completed exactly when the index
\* equals it; a step taken in the completed state records no outcome of the
\* session's kind, and while the session stays completed its score and its
\* total do not change.
C19_IndexBoundedAndCompletedIsFinal ==
    /\ [](LET fc == session_state.fc_state
              quiz_state == session_state.quiz_state
          IN /\ fc.idx <= Len(fc.cards)
             /\ quiz_state.current_index <= Len(quiz_state.questions)
             /\ FcCompleted <=> (fc.active /\ fc.idx = Len(fc.cards))
             /\ QuizCompleted <=>
                   (quiz_state.active /\ quiz_state.current_index = Len(quiz_state.questions)))
    /\ [][/\ FcCompleted => RecordedReviews = {}
          /\ (FcCompleted /\ FcCompleted') =>
                /\ session_state'.fc_state.cards = session_state.fc_state.cards
                /\ session_state'.fc_state.idx = session_state.fc_state.idx
          /\ QuizCompleted => RecordedAnswers = {}
          /\ (QuizCompleted /\ QuizCompleted') =>
                /\ session_state'.quiz_state.score = session_state.quiz_state.score
                /\ session_state'.quiz_state.questions = session_state.quiz_state.questions
                /\ session_state'.quiz_state.current_index =
                      session_state.quiz_state.current_index]_vars

\* Both sessions are completed, each over at least one item.
C19_Witness ==
    /\ FcCompleted
    /\ Len(session_state.fc_state.cards) >= 1
    /\ QuizCompleted
    /\ Len(session_state.quiz_state.questions) >= 1
    /\ Cardinality(learning_history) >= 2

\* C20: no session is active over zero items, so a completed session has a
\* total of at least 1: a flashcard session starts only from a non-empty due
\* list, and a quiz whose draw came back empty is not started.
C20_NoSessionOverZeroItems ==
    LET fc == session_state.fc_state
        quiz_state == session_state.quiz_state
    IN /\ fc.active => Len(fc.cards) >= 1
       /\ quiz_state.active => Len(quiz_state.questions) >= 1
       /\ (last.op = "get_random_quiz" /\ last.ret = "empty") => ~quiz_state.active

\* The quiz of a document without questions was refused although the
\* tenant has questions, and no flashcard session can start because no card
\* is due after the last review.
C20_Witness ==
    /\ last.op = "get_random_quiz"
    /\ last.ret = "empty"
    /\ ~session_state.quiz_state.active
    /\ get_quiz_questions(session_state.user_id, NULL) # {}
    /\ ~session_state.fc_state.active
    /\ flashcards # {}
    /\ due_cards(session_state.user_id) = {}


\* The questions of the running quiz answered so far.
AnsweredCount ==
    session_state.quiz_state.current_index
        + (IF session_state.quiz_state.answered THEN 1 ELSE 0)

\* The positions of the running quiz whose selected option is the stored
\* correct answer of the question.
MatchingAnswers ==
    {idx \in 0 .. AnsweredCount - 1 :
        /\ idx \in DOMAIN session_state.selected
        /\ \E q \in quiz_questions :
              /\ q.id = session_state.quiz_state.questions[idx + 1].id
              /\ session_state.selected[idx] = q.correct_answer}

C21_ScoreInvariant ==
    LET quiz_state == session_state.quiz_state IN
    /\ \A i, j \in DOMAIN quiz_state.questions :
          i # j => quiz_state.questions[i].id # quiz_state.questions[j].id
    /\ 0 <= quiz_state.score
    /\ quiz_state.score <= AnsweredCount
    /\ AnsweredCount <= Len(quiz_state.questions)
    /\ quiz_state.score = Cardinality(MatchingAnswers)

C21_AnswerStep ==
    LET quiz_state == session_state.quiz_state
        idx == quiz_state.current_index
        new == {h \in learning_history' \ learning_history : h.quiz_question_id # NULL}
    IN /\ learning_history \subseteq learning_history'
       /\ (new # {} \/ (~quiz_state.answered /\ session_state'.quiz_state.answered)) =>
             /\ quiz_state.active /\ ~quiz_state.answered
             /\ session_state'.quiz_state.answered
             /\ session_state'.quiz_state.current_index = idx
             /\ session_state'.quiz_state.questions = quiz_state.questions
             /\ \E h \in new : \E q \in quiz_questions :
                   /\ new = {h}
                   /\ h.flashcard_id = NULL
                   /\ h.quiz_question_id = quiz_state.questions[idx + 1].id
                   /\ q.id = h.quiz_question_id
                   /\ (h.result = "correct") <=> (session_state'.selected[idx] = q.correct_answer)
                   /\ h.result \in {"correct", "incorrect"}
       /\ (quiz_state.active /\ session_state'.quiz_state.active) =>
             session_state'.quiz_state.current_index >= idx

\* C21: within a quiz session each question is answered at most once (the
\* answer is taken only while the question is unanswered, the index only
\* moves forward and no question occurs twice); every answer appends
\* exactly one history event, for that question, whose result is "correct"
\* exactly when the selected option equals the stored correct answer; and
\* the score is the number of matching answers of the session, with
\* 0 <= score <= answered <= total.
C21_QuizAnswersCountedOnce == []C21_ScoreInvariant /\ [][C21_AnswerStep]_vars

\* A completed quiz of two questions, one answered with its correct option
\* and one not.
C21_Witness ==
    /\ session_state.quiz_state.active
    /\ session_state.quiz_state.current_index = 2
    /\ session_state.quiz_state.score = 1
    /\ Cardinality({h \in learning_history : h.quiz_question_id # NULL}) = 2

\* What the bulk insert that made the step owes: on "ok" the table gained
\* one row per item of the list, each with the caller's user_id, and the
\* returned count is the length of the list; otherwise an error is returned
\* and no table changed.
BulkAllOrNothing(table_before, table_after) ==
    IF last'.ret = "ok"
    THEN /\ table_before \subseteq table_after
         /\ Cardinality(table_after \ table_before) = last'.arg.n
         /\ \A r \in table_after \ table_before : r.user_id = last'.uid.val
         /\ last'.arg.rowcount = last'.arg.n
    ELSE /\ last'.ret \in {"KeyError", "IntegrityError"}
         /\ tables' = tables

C22_BulkStep ==
    /\ last'.op = "create_flashcards_bulk" => BulkAllOrNothing(flashcards, flashcards')
    /\ last'.op = "create_quiz_questions_bulk"
          => BulkAllOrNothing(quiz_questions, quiz_questions')

\* C22: create_flashcards_bulk and create_quiz_questions_bulk are
\* all-or-nothing per call: when the call fails at any item (an item without
\* a key, or a row the table rejects after earlier rows were inserted) no
\* row of the call is persisted and the error reaches the caller; when it
\* succeeds every item is persisted with the caller's user_id and the
\* returned count is the length of the list.
C22_BulkInsertAllOrNothing == [][C22_BulkStep]_vars

\* A bulk insert of two items failed at a row the table rejects, after an
\* earlier insert had succeeded: the table holds the earlier row only.
C22_Witness ==
    /\ last.ret = "IntegrityError"
    /\ last.op = "create_flashcards_bulk"
    /\ last.arg.doc = NULL
    /\ last.arg.n = 2
    /\ Cardinality(flashcards) = 1

\* The rows of `table_after` that `table_before` does not hold.
Added(table_before, table_after) == table_after \ table_before

WellFormedCards(flashcards_list) ==
    flashcards_list # <<>> /\ \A i \in DOMAIN flashcards_list : flashcards_list[i] = GoodCard

WellFormedQuestions(questions_list) ==
    /\ questions_list # <<>>
    /\ \A i \in DOMAIN questions_list : questions_list[i] \in {MultipleChoice, OpenEnded}

C23_GenerateStep ==
    LET g == last'.arg.generated
        d == last'.arg.doc
    IN (last'.op = "generate_study_material" /\ last'.ret = "results" /\ DocExists(d)) =>
          \* a failed generation is not persisted
          /\ g.summary = SummaryFailure => summaries' = summaries
          /\ g.flashcards = <<>> => flashcards' = flashcards
          /\ g.questions = <<>> => quiz_questions' = quiz_questions
          \* a failed summary does not stop the flashcards
          /\ (g.summary = SummaryFailure /\ WellFormedCards(g.flashcards)) =>
                /\ Cardinality(Added(flashcards, flashcards')) = Len(g.flashcards)
                /\ \A f \in Added(flashcards, flashcards') : f.document_id = d
          \* failed summary or flashcards do not stop the quiz questions
          /\ (/\ g.summary = SummaryFailure \/ g.flashcards = <<>>
              /\ g.flashcards = <<>> \/ WellFormedCards(g.flashcards)
              /\ WellFormedQuestions(g.questions)) =>
                /\ Cardinality(Added(quiz_questions, quiz_questions')) = Len(g.questions)
                /\ \A q \in Added(quiz_questions, quiz_questions') : q.document_id = d

\* C23: in generate_study_material a summary generation that failed does
\* not keep the flashcards and the quiz questions from being generated and
\* saved, a flashcard generation that failed does not keep the quiz
\* questions from being generated and saved, and what a failed generation
\* returned (the failure text, the empty list) is not persisted.
C23_FailedGenerationIsSkipped == [][C23_GenerateStep]_vars

\* Summary and flashcard generation failed and the quiz questions were
\* saved, alone.
C23_Witness ==
    /\ last.op = "generate_study_material"
    /\ last.arg.generated.summary = SummaryFailure
    /\ last.arg.generated.flashcards = <<>>
    /\ last.arg.generated.questions = <<OpenEnded>>
    /\ Cardinality(quiz_questions) = 1
    /\ summaries = {}
    /\ flashcards = {}

\* C24: a storage failure raised by a material-store write made by
\* generate_study_material (create_summary, create_flashcards_bulk,
\* create_quiz_questions_bulk, mark_document_processed) is not caught
\* locally: the call ends with that error, never with a normal return
\* value.
C24_StorageFailureReachesCaller ==
    (last.op = "generate_study_material" /\ last.arg.printed = "IntegrityError")
        => last.ret # "results"

\* generate_study_material returned its results dict although the flashcard
\* insert had raised: the summary of the call is stored, its cards and
\* questions are not, and the document is not marked.
C24_Witness ==
    /\ last.op = "generate_study_material"
    /\ last.ret = "results"
    /\ last.arg.printed = "IntegrityError"
    /\ last.arg.generated.flashcards = <<CardWithNullQuestion>>
    /\ \E s \in summaries : s.document_id = last.arg.doc
    /\ \A f \in flashcards : f.document_id # last.arg.doc
    /\ \A d \in documents : d.id = last.arg.doc => d.is_processed = 0

\* The summaries, flashcards and quiz questions stored for document id.
MaterialOf(id) ==
    {x \in summaries \cup flashcards \cup quiz_questions : x.document_id = id}

C27_DocumentStep ==
    \A d \in documents : \A e \in documents' :
        d.id = e.id =>
            /\ e.user_id = d.user_id
            /\ d.is_processed = 1 => e.is_processed = 1
            /\ (d.is_processed = 0 /\ e.is_processed = 1) => MaterialOf(d.id)' # {}

\* C27: is_processed of a document changes only from 0 to 1, never back,
\* and becomes 1 only in a state where at least one summary, flashcard or
\* quiz question is stored for that document; no other field of a document
\* changes after its creation.
C27_ProcessedOnlyWithMaterial ==
    /\ [](\A d \in documents : d.is_processed \in {0, 1})
    /\ [][C27_DocumentStep]_vars

\* All three generations failed and the document is marked as processed
\* with no material stored for it.
C27_Witness ==
    /\ last.op = "generate_study_material"
    /\ last.arg.generated = [summary |-> SummaryFailure, flashcards |-> <<>>,
                             questions |-> <<>>]
    /\ \E d \in documents :
          d.id = last.arg.doc /\ d.is_processed = 1 /\ MaterialOf(d.id) = {}

\* The history events that reference flashcard id.
ReviewsOf(id) == {h \in learning_history : h.flashcard_id = id}

\* What the call c, which has read its counters, owes when its write is
\* committed: no error, the stored counters are the ones it read plus its
\* own review, whatever another session stored since, and one event more
\* for the card.
WriteOfLaterWriterWins(c) ==
    /\ last'.ret = "true"
    /\ \A f \in flashcards' :
          f.id = c.arg.id =>
             /\ f.times_reviewed = c.times_reviewed + 1
             /\ f.times_correct = c.times_correct + (IF c.arg.ok THEN 1 ELSE 0)
    /\ learning_history \subseteq learning_history'
    /\ Cardinality({h \in learning_history' : h.flashcard_id = c.arg.id})
           = Cardinality(ReviewsOf(c.arg.id)) + 1

C25_WriteStep ==
    /\ (conn.pc = "inserted" /\ conn'.pc = "closed") => WriteOfLaterWriterWins(conn)
    /\ (peer.pc = "selected" /\ peer'.pc = "closed") => WriteOfLaterWriterWins(peer)

\* C25: when two sessions of a tenant review the same flashcard and both
\* read its counters before either writes, the stored counters are those
\* of the later writer (times_reviewed grows by 1, not 2), neither session
\* gets an error, and both history events are appended.
C25_ConcurrentReviewsLoseOneCount == [][C25_WriteStep]_vars

\* Both sessions read card 1 before any review of it was stored and both
\* have written: two events, times_reviewed = 1.
C25_Witness ==
    /\ conn.pc = "closed"
    /\ peer.pc = "closed"
    /\ Cardinality(ReviewsOf(1)) = 2
    /\ \E f \in flashcards : f.id = 1 /\ f.times_reviewed = 1

\* C29: in every reachable state, interleaved reviews of several sessions
\* included, times_reviewed of each flashcard is the number of history
\* events that reference it and times_correct the number of those with
\* result "correct".
C29_CountersMatchHistory ==
    \A f \in flashcards :
        /\ f.times_reviewed = Cardinality(ReviewsOf(f.id))
        /\ f.times_correct = Cardinality({h \in ReviewsOf(f.id) : h.result = "correct"})

\* Two correct reviews of card 1 are recorded and the card counts one.
C29_Witness ==
    /\ Cardinality({h \in ReviewsOf(1) : h.result = "correct"}) = 2
    /\ \E f \in flashcards : f.id = 1 /\ f.times_reviewed = 1 /\ f.times_correct = 1

\* C26: every list get_flashcards_for_review returns is in ascending order
\* of times_reviewed, holds at most `limit` cards and no card twice, and
\* when more cards are due than the limit admits, no card left out has
\* been reviewed less often than a card returned.
C26_LeastReviewedFirst ==
    \A A \in Users : \A limit \in 0 .. MaxCards + 1 :
        \A cards \in get_flashcards_for_review(A, limit) :
            /\ Len(cards) <= limit
            /\ \A i, j \in DOMAIN cards :
                  i < j => /\ cards[i].id # cards[j].id
                           /\ cards[i].times_reviewed <= cards[j].times_reviewed
            /\ \A i \in DOMAIN cards : \E f \in due_cards(A) : f.id = cards[i].id
            /\ \A f \in due_cards(A) :
                  (\A i \in DOMAIN cards : cards[i].id # f.id) =>
                      /\ Len(cards) = limit
                      /\ \A i \in DOMAIN cards : cards[i].times_reviewed <= f.times_reviewed

\* Two cards of tenant 1 are due, one reviewed more often than the other:
\* with limit 1 the list is the less reviewed one.
C26_Witness ==
    /\ \E f, g \in due_cards(1) : f.times_reviewed < g.times_reviewed
    /\ \A cards \in get_flashcards_for_review(1, 1) :
          Len(cards) = 1 /\ cards[1].times_reviewed = 0

\* The tenant a flashcard or a quiz question held by the session belongs to.
OwnersOfSessionCards ==
    {c.user_id : c \in {f \in flashcards :
        \E i \in DOMAIN session_state.fc_state.cards :
            session_state.fc_state.cards[i] = f.id}}

OwnersOfSessionQuestions ==
    {q.user_id : q \in {r \in quiz_questions :
        \E i \in DOMAIN session_state.quiz_state.questions :
            session_state.quiz_state.questions[i].id = r.id}}

\* C28: once clear_session has run the session holds no card, no question
\* and no selected option, and when a user is logged in
\* every card and every question the session holds is that user's own.
C28_SessionHoldsNoDataOfPreviousUser ==
    /\ session_state.user_id = NULL =>
          /\ session_state.fc_state.cards = <<>>
          /\ session_state.quiz_state.questions = <<>>
          /\ session_state.selected = <<>>
    /\ session_state.user_id # NULL =>
          /\ OwnersOfSessionCards \subseteq {session_state.user_id}
          /\ OwnersOfSessionQuestions \subseteq {session_state.user_id}

\* Tenant 2 is logged in while the session still holds a running quiz over
\* a question of tenant 1 and a running flashcard session over its card.
C28_Witness ==
    /\ last.op = "set_session"
    /\ session_state.user_id = 2
    /\ session_state.quiz_state.active
    /\ OwnersOfSessionQuestions = {1}
    /\ session_state.fc_state.active
    /\ OwnersOfSessionCards = {1}

QuizRunning ==
    /\ session_state.quiz_state.active
    /\ session_state.quiz_state.current_index < Len(session_state.quiz_state.questions)

\* C30: a started quiz whose user keeps acting reaches the completed state,
\* whatever the questions bound to it.
C30_StartedQuizCompletes == QuizRunning ~> QuizCompleted

\* The quiz stands at an unanswered question stored with no options.
C30_Witness ==
    /\ QuizRunning
    /\ ~session_state.quiz_state.answered
    /\ CurrentQuestion.options = <<>>
====
